---- MODULE Spec2Model ----
(***************************************************************************)
(* Takopi: the Telegram bridge's dispatch and concurrency core.            *)
(*                                                                         *)
(*   Spec         the main loop, the thread scheduler, the engine runs,    *)
(*                the RunningTasks map and the topic store's sessions      *)
(*   LiveSpec     Spec with the fairness of the event loop                 *)
(***************************************************************************)
EXTENDS Integers, Sequences, FiniteSets, TLC

(***************************************************************************)
(* Bounds.                                                                 *)
(***************************************************************************)
\* Number of message updates the poller delivers to the main loop.
MaxUpdates == 3
\* The same, where cancellation, shutdown and plugin commands are included.
MaxTaskUpdates == 2

(***************************************************************************)
(* Values.                                                                 *)
(***************************************************************************)
\* Python's None for a message id, a thread id or a job.
None == 0
\* resume_token is None.
NoToken == -1
\* A resume token minted before this process started (in an old message or in
\* the persisted topic store); the token minted by the run of job j is j.
OldToken == 0

Jobs == 1..MaxUpdates
Tokens == 0..MaxUpdates
\* Forum topics (thread ids) of the allowed chat; None is a message outside
\* any topic, for which _topic_key is None.
Topics == {1, 2}
Threads == {None} \cup Topics
Engines == {"codex", "pi"}

VARIABLES
    nUpd,           \* message updates handled so far; the next job is nUpd + 1
    runs,           \* per job: the update and the run it led to
    running_tasks,  \* RunningTasks: progress message id -> job
    pending,        \* ThreadScheduler: token -> queue of jobs
    active,         \* ThreadScheduler: tokens that have a worker
    worker,         \* per token, the job its worker is awaiting (None: none)
    busy_until,     \* ThreadScheduler: token -> job whose done event it waits for
    sessions,       \* topic store: topic -> engine -> stored resume token
    storeLog,       \* every <<topic, engine, token>> ever written to the store
    enqLog,         \* per token, the jobs in the order enqueue_resume was called
    startLog,       \* per token, the jobs in the order the scheduler started them
    shutdown,       \* the root task group has been cancelled
    edits,          \* per progress message: the state of its edits
    res,            \* one call of resolve_message: its inputs and its result
    eng,            \* one call of resolve_engine: its inputs and its result
    progress,       \* one ExecProgressRenderer and what it has been fed
    media,          \* the media group of one (chat_id, media_group_id), and time
    route,          \* one update taken by the main loop: its inputs and its effects
    forum,          \* the topic store, the forum topics and the calls on them
    frame,          \* one frame rendered by the presenter: its inputs and markup
    menu,           \* one call of _build_bot_commands: its inputs and its result
    symbol          \* one status symbol chosen by note_event: inputs and result

vars == <<nUpd, runs, running_tasks, pending, active, worker,
          busy_until, sessions, storeLog, enqLog, startLog, shutdown,
          edits, res, eng, progress, media, route, forum, frame, menu, symbol>>

loopVars == <<nUpd, runs, running_tasks, pending, active, worker,
              busy_until, sessions, storeLog, enqLog, startLog, shutdown>>
otherVars == <<edits, res, eng, progress, media, route, forum, frame, menu, symbol>>
exceptEdits == <<loopVars, res, eng, progress, media, route, forum, frame, menu, symbol>>
exceptRes == <<loopVars, edits, eng, progress, media, route, forum, frame, menu, symbol>>
exceptEng == <<loopVars, edits, res, progress, media, route, forum, frame, menu, symbol>>
exceptProgress == <<loopVars, edits, res, eng, media, route, forum, frame, menu, symbol>>
exceptMedia == <<loopVars, edits, res, eng, progress, route, forum, frame, menu, symbol>>
exceptRoute == <<loopVars, edits, res, eng, progress, media, forum, frame, menu, symbol>>
exceptTopic == <<loopVars, edits, res, eng, progress, media, route, frame, menu, symbol>>
exceptFrame == <<loopVars, edits, res, eng, progress, media, route, forum, menu, symbol>>
exceptMenu == <<loopVars, edits, res, eng, progress, media, route, forum, frame, symbol>>
exceptSymbol == <<loopVars, edits, res, eng, progress, media, route, forum, frame, menu>>

schedVars == <<pending, active, worker, busy_until>>
logVars == <<enqLog, startLog>>
storeVars == <<sessions, storeLog>>

(***************************************************************************)
(* Message ids. The chat gives every message its own id: the user's        *)
(* message of job j, and the progress message the run of job j sends.      *)
(***************************************************************************)
UserMsgId(j) == 2 * j - 1
ProgressMsgId(j) == 2 * j

(***************************************************************************)
(* A job: one message update and, when it leads to one, its engine run.    *)
(*   kind    fresh | resume | wait | plugin | capture                      *)
(*   pc      idle -> (waiting ->) (queued ->) spawned -> running -> ended  *)
(*   token   the resume token the run was given (NoToken: a fresh run)     *)
(*   ref     RunningTask.progress_ref (None: no progress message)          *)
(*   resume  RunningTask.resume; resume_ready is set with it               *)
(*   context the job whose resolved context the run is given               *)
(*   sent    what the job's own task sent to the user, in order            *)
(*   raised  an exception reached the except clause of _run_engine         *)
(***************************************************************************)
EmptyRun ==
    [kind |-> "none", pc |-> "idle", topic |-> None,
     engine |-> "codex", token |-> NoToken, ref |-> None, resume |-> NoToken,
     cancel_requested |-> FALSE, done |-> FALSE, waitOn |-> None,
     context |-> None, sent |-> <<>>, raised |-> FALSE]

\* The engine that owns a token (router.entry_for(resume_token)).
TokenEngine(t) == IF t = OldToken THEN "codex" ELSE runs[t].engine

\* Tokens a user can have seen: the old one, and those a run has shown in its
\* progress message (a capture run shows nothing).
VisibleTokens ==
    {OldToken} \cup {runs[i].resume : i \in {k \in Jobs : /\ runs[k].resume # NoToken
                                                          /\ runs[k].kind # "capture"}}

\* Messages of the chat a user can reply to.
ExistingMsgs ==
    {UserMsgId(j) : j \in 1..nUpd} \cup {runs[j].ref : j \in {k \in Jobs : runs[k].ref # None}}

LoopInit ==
    /\ nUpd = 0
    /\ runs = [j \in Jobs |-> EmptyRun]
    /\ running_tasks = <<>>
    /\ pending = [t \in Tokens |-> <<>>]
    /\ active = {}
    /\ worker = [t \in Tokens |-> None]
    /\ busy_until = [t \in Tokens |-> None]
    /\ sessions = [tp \in Topics |-> [e \in Engines |-> NoToken]]
    /\ storeLog = {}
    /\ enqLog = [t \in Tokens |-> <<>>]
    /\ startLog = [t \in Tokens |-> <<>>]
    /\ shutdown = FALSE

(***************************************************************************)
(* RunningTasks, a dict keyed by the progress message's MessageRef.        *)
(***************************************************************************)
\* The task keyed by the user's message instead of the progress message.
RegisteredByUserMsg(rt, ref, j) ==
    [r \in DOMAIN rt \cup {2 * j - 1} |-> IF r = 2 * j - 1 THEN j ELSE rt[r]]

\* The release block without the pop.
PoppedNothing(rt, ref) == rt

Registered(rt, ref, j) == [r \in DOMAIN rt \cup {ref} |-> IF r = ref THEN j ELSE rt[r]]
Popped(rt, ref) == [r \in DOMAIN rt \ {ref} |-> rt[r]]

SetRun(j, r) == runs' = [runs EXCEPT ![j] = r]

\* The engine session of a job: the token it resumes, or the token its fresh
\* run has declared (NoToken while it has declared none).
Session(j) == IF runs[j].token # NoToken THEN runs[j].token ELSE runs[j].resume

\* The job's run has been started and has not ended.
Live(j) == runs[j].pc \in {"spawned", "running"}

(***************************************************************************)
(* ThreadScheduler.                                                        *)
(***************************************************************************)
\* The thread of token t is busy: note_thread_known associated a done event
\* with it and that event has not fired.
Busy(t) == IF busy_until[t] = None THEN FALSE ELSE ~runs[busy_until[t]].done

\* One worker for all the queues: no worker is inside run_job.
WorkerIdleAll(t) ==
    \A u \in DOMAIN worker : IF worker[u] = None THEN TRUE ELSE runs[worker[u]].pc = "ended"

\* The worker of t is not inside run_job.
WorkerIdle(t) == IF worker[t] = None THEN TRUE ELSE runs[worker[t]].pc = "ended"

\* enqueue_resume: append the job to the token's queue and start a worker for
\* the queue when it has none.
EnqueueResume(j, t) ==
    /\ pending' = [pending EXCEPT ![t] = Append(@, j)]
    /\ active' = active \cup {t}
    /\ enqLog' = [enqLog EXCEPT ![t] = Append(@, j)]
    /\ UNCHANGED <<worker, busy_until, startLog>>

\* A deque's pop() where popleft() is meant: the newest job first.
PopJobNewest(q) == <<q[Len(q)], SubSeq(q, 1, Len(q) - 1)>>

\* The next job of a queue and the rest of the queue, first in first out.
PopJob(q) == <<Head(q), Tail(q)>>

\* The worker of t takes its next job once the thread is not busy and calls
\* run_job (run_thread_job) with it.
WorkerTake(t) ==
    /\ ~shutdown
    /\ t \in active
    /\ WorkerIdle(t)
    /\ ~Busy(t)
    /\ pending[t] # <<>>
    /\ LET j == PopJob(pending[t])[1] IN
         /\ pending' = [pending EXCEPT ![t] = PopJob(@)[2]]
         /\ worker' = [worker EXCEPT ![t] = j]
         /\ startLog' = [startLog EXCEPT ![t] = Append(@, j)]
         /\ SetRun(j, [runs[j] EXCEPT !.pc = "spawned"])
    /\ UNCHANGED <<nUpd, running_tasks, active, busy_until, storeVars,
                   enqLog, shutdown>>
    /\ UNCHANGED otherVars

\* The queue is empty and the last job's done event has fired: the worker
\* exits and the thread becomes idle.
WorkerExit(t) ==
    /\ ~shutdown
    /\ t \in active
    /\ WorkerIdle(t)
    /\ ~Busy(t)
    /\ pending[t] = <<>>
    /\ active' = active \ {t}
    /\ worker' = [worker EXCEPT ![t] = None]
    /\ UNCHANGED <<nUpd, runs, running_tasks, pending, busy_until,
                   storeVars, logVars, shutdown>>
    /\ UNCHANGED otherVars

(***************************************************************************)
(* The main loop: one action per kind of update.                           *)
(***************************************************************************)
NewJob(kind, pc, topic, engine, token, waitOn) ==
    [EmptyRun EXCEPT !.kind = kind, !.pc = pc, !.topic = topic,
                     !.engine = engine, !.token = token, !.waitOn = waitOn]

\* A lookup that takes whatever token the topic has stored, for any engine.
StoredResumeAnyEngine(topic, engine, token) ==
    IF token = NoToken /\ topic # None
    THEN IF sessions[topic][engine] # NoToken THEN sessions[topic][engine]
         ELSE IF \E e \in Engines : sessions[topic][e] # NoToken
         THEN sessions[topic][CHOOSE e \in Engines : sessions[topic][e] # NoToken]
         ELSE NoToken
    ELSE NoToken

\* The topic's stored resume token for the engine of the message, looked up
\* only when the message resolved without one.
StoredResume(topic, engine, token) ==
    IF token = NoToken /\ topic # None THEN sessions[topic][engine] ELSE NoToken

\* What the loop does with a message that reached the engine-run path.
DispatchMessage(topic, engine, token, reply) ==
    /\ nUpd' = nUpd + 1
    /\ LET j == nUpd + 1
           stored == StoredResume(topic, engine, token)
           tok == IF stored # NoToken THEN stored ELSE token
       IN  IF token = NoToken /\ reply # None /\ reply \in DOMAIN running_tasks
           THEN \* tg.start_soon(_send_with_resume, ...)
                /\ SetRun(j, [NewJob("wait", "waiting", topic, engine, NoToken,
                                     running_tasks[reply]) EXCEPT !.context = j])
                /\ UNCHANGED <<schedVars, logVars>>
           ELSE IF tok = NoToken
           THEN \* tg.start_soon(run_job, ..., None, ...)
                /\ SetRun(j, [NewJob("fresh", "spawned", topic, engine, NoToken,
                                     None) EXCEPT !.context = j])
                /\ UNCHANGED <<schedVars, logVars>>
           ELSE \* await scheduler.enqueue_resume(...)
                /\ SetRun(j, [NewJob("resume", "queued", topic, TokenEngine(tok),
                                     tok, None) EXCEPT !.context = j])
                /\ EnqueueResume(j, tok)
    /\ UNCHANGED <<running_tasks, storeVars, shutdown>>
    /\ UNCHANGED otherVars

\* await run_job(...) where tg.start_soon(run_job, ...) is meant: the loop
\* takes no update while a fresh run it launched is live.
HandleMessageAwaitsRun(topic, engine, token, reply) ==
    /\ ~shutdown
    /\ nUpd < MaxUpdates
    /\ \A j \in Jobs : runs[j].kind = "fresh" => ~Live(j)
    /\ token \in {NoToken} \cup VisibleTokens
    /\ reply \in {None} \cup ExistingMsgs
    /\ DispatchMessage(topic, engine, token, reply)

\* A message that reached the engine-run path with its resolved resume token
\* (NoToken: none) and the message it replies to (None: none).
HandleMessage(topic, engine, token, reply) ==
    /\ ~shutdown
    /\ nUpd < MaxUpdates
    /\ token \in {NoToken} \cup VisibleTokens
    /\ reply \in {None} \cup ExistingMsgs
    /\ DispatchMessage(topic, engine, token, reply)

\* running_task.cancel_requested.set() on the task keyed by ref, if any.
RequestCancel(ref) ==
    IF ref # None /\ ref \in DOMAIN running_tasks
    THEN [runs EXCEPT ![running_tasks[ref]].cancel_requested = TRUE]
    ELSE runs

\* /cancel, replying to message reply (None: not a reply).
HandleCancel(reply) ==
    /\ ~shutdown
    /\ reply \in {None} \cup ExistingMsgs
    /\ runs' = RequestCancel(reply)
    /\ runs' # runs
    /\ UNCHANGED <<nUpd, running_tasks, schedVars, storeVars, logVars, shutdown>>
    /\ UNCHANGED otherVars

\* A callback query with data takopi:cancel on the button of message ref.
HandleCallbackCancel(ref) ==
    /\ ~shutdown
    /\ ref \in ExistingMsgs
    /\ runs' = RequestCancel(ref)
    /\ runs' # runs
    /\ UNCHANGED <<nUpd, running_tasks, schedVars, storeVars, logVars, shutdown>>
    /\ UNCHANGED otherVars

\* A plugin command whose backend calls executor.run_one(request, mode=mode).
HandlePlugin(topic, engine, mode) ==
    /\ ~shutdown
    /\ nUpd < MaxUpdates
    /\ nUpd' = nUpd + 1
    /\ SetRun(nUpd + 1, NewJob(mode, "spawned", topic, engine, NoToken, None))
    /\ UNCHANGED <<running_tasks, schedVars, storeVars, logVars, shutdown>>
    /\ UNCHANGED otherVars

\* _send_plain with the text that the resume token is not ready yet.
not_ready == [kind |-> "plain", status |-> "not ready", resume |-> NoToken]

\* What _send_with_resume does once _wait_for_resume has returned: without a
\* token the user is told so, with one the message is enqueued under it with
\* the running task's context.
SentWithResume(j, task) ==
    IF task.resume = NoToken
    THEN /\ SetRun(j, [runs[j] EXCEPT !.pc = "ended", !.sent = Append(@, not_ready)])
         /\ UNCHANGED <<schedVars, logVars>>
    ELSE /\ SetRun(j, [runs[j] EXCEPT !.kind = "resume", !.pc = "queued",
                                      !.token = task.resume,
                                      !.context = task.context,
                                      !.engine = TokenEngine(task.resume)])
         /\ EnqueueResume(j, task.resume)

\* A wait that watches the done event only.
SendWithResumeAwaitsDone(j) ==
    /\ ~shutdown
    /\ runs[j].pc = "waiting"
    /\ runs[runs[j].waitOn].done
    /\ SentWithResume(j, runs[runs[j].waitOn])
    /\ UNCHANGED <<nUpd, running_tasks, storeVars, shutdown>>
    /\ UNCHANGED otherVars

\* _send_with_resume: the wait ends when the task's resume token is ready or
\* the task is done.
SendWithResume(j) ==
    /\ ~shutdown
    /\ runs[j].pc = "waiting"
    /\ LET task == runs[runs[j].waitOn] IN
         /\ task.resume # NoToken \/ task.done
         /\ SentWithResume(j, task)
    /\ UNCHANGED <<nUpd, running_tasks, storeVars, shutdown>>
    /\ UNCHANGED otherVars

(***************************************************************************)
(* One engine run: _run_engine and handle_message.                         *)
(***************************************************************************)
\* What runtime.resolve_runner and runtime.resolve_run_cwd can come to:
\*   ok                     an available runner and a working directory
\*   unavailable            an entry whose available is False
\*   RunnerUnavailableError resolve_runner raised it
\*   ConfigError            resolve_run_cwd raised it
StartOutcomes == {"ok", "unavailable", "RunnerUnavailableError", "ConfigError"}

\* _send_runner_unavailable without tracker.set_resume(resume_token).
send_runner_unavailable_drops_resume(resume_token) ==
    [kind |-> "final", status |-> "error", resume |-> NoToken]

\* _send_runner_unavailable: a final frame with status error, rendered from a
\* tracker that was given the request's resume token.
send_runner_unavailable(resume_token) ==
    [kind |-> "final", status |-> "error", resume |-> resume_token]

\* _send_plain with the text of the error.
send_plain == [kind |-> "plain", status |-> "none", resume |-> NoToken]

\* What _run_engine sends before it returns without calling handle_message.
StartFailure(outcome, resume_token) ==
    IF outcome = "unavailable" THEN send_runner_unavailable(resume_token) ELSE send_plain

\* _run_engine up to the registration of the RunningTask: resolve the runner
\* and the working directory, send the initial progress message.
RunStart(j, outcome, sendOk) ==
    /\ ~shutdown
    /\ runs[j].pc = "spawned"
    /\ IF outcome # "ok"
       THEN /\ SetRun(j, [runs[j] EXCEPT
                            !.pc = "ended",
                            !.sent = Append(@, StartFailure(outcome, runs[j].token))])
            /\ UNCHANGED running_tasks
       ELSE IF runs[j].kind = "capture" \/ ~sendOk
       THEN \* _CaptureTransport and its own dict, or the send failed
            /\ SetRun(j, [runs[j] EXCEPT !.pc = "running"])
            /\ UNCHANGED running_tasks
       ELSE /\ SetRun(j, [runs[j] EXCEPT !.pc = "running", !.ref = ProgressMsgId(j)])
            /\ running_tasks' = Registered(running_tasks, ProgressMsgId(j), j)
    /\ UNCHANGED <<nUpd, schedVars, storeVars, logVars, shutdown>>
    /\ UNCHANGED otherVars

\* on_thread_known=None where scheduler.note_thread_known is meant.
NotesThreadNever(kind) == FALSE

\* The on_thread_known callback a run of this kind was given stores the token
\* in the topic store (wrap_on_thread_known with a topic key).
StoresSession(kind, topic) == kind \in {"fresh", "resume"} /\ topic # None

\* ... and publishes it to the scheduler (scheduler.note_thread_known).
NotesThread(kind) == kind \in {"fresh", "resume", "plugin"}

\* The engine's Started event: the run's resume token becomes known.
EngineStarted(j) ==
    /\ ~shutdown
    /\ runs[j].pc = "running"
    /\ runs[j].resume = NoToken
    /\ ~runs[j].cancel_requested
    /\ LET r == runs[j]
           tok == IF r.token # NoToken THEN r.token ELSE j
       IN  /\ SetRun(j, [r EXCEPT !.resume = tok])
           /\ busy_until' = IF NotesThread(r.kind)
                            THEN [busy_until EXCEPT ![tok] = j]
                            ELSE busy_until
           /\ IF StoresSession(r.kind, r.topic)
              THEN /\ sessions' = [sessions EXCEPT ![r.topic][r.engine] = tok]
                   /\ storeLog' = storeLog \cup {<<r.topic, r.engine, tok>>}
              ELSE UNCHANGED storeVars
    /\ UNCHANGED <<nUpd, running_tasks, pending, active, worker, logVars,
                   shutdown>>
    /\ UNCHANGED otherVars

\* The guaranteed-release block of run j: done is set and the entry is popped.
Released(rs, j) == [rs EXCEPT ![j].pc = "ended", ![j].done = TRUE]

\* A run that never looks at cancel_requested.
RunEndIgnoresCancel(j, cancelled) ==
    /\ ~shutdown
    /\ runs[j].pc = "running"
    /\ ~cancelled
    /\ ~runs[j].cancel_requested
    /\ runs' = [runs EXCEPT ![j].pc = "ended", ![j].done = TRUE]
    /\ running_tasks' = Popped(running_tasks, runs[j].ref)
    /\ UNCHANGED <<nUpd, schedVars, storeVars, logVars, shutdown>>
    /\ UNCHANGED otherVars

\* The engine's stream ends (an answer, or an exception that is caught), or
\* cancel_requested is seen at an event boundary and the engine is terminated.
RunEnd(j, cancelled) ==
    /\ ~shutdown
    /\ runs[j].pc = "running"
    /\ cancelled = runs[j].cancel_requested
    /\ runs' = Released(runs, j)
    /\ running_tasks' = Popped(running_tasks, runs[j].ref)
    /\ UNCHANGED <<nUpd, schedVars, storeVars, logVars, shutdown>>
    /\ UNCHANGED otherVars

\* SIGINT: the root task group is cancelled and its tasks unwind; every run
\* that is streaming executes its finally block.
Shutdown ==
    /\ ~shutdown
    /\ shutdown' = TRUE
    /\ runs' = [j \in Jobs |->
                  IF runs[j].pc = "running" THEN Released(runs, j)[j]
                  ELSE IF runs[j].pc \in {"waiting", "spawned"}
                       THEN [runs[j] EXCEPT !.pc = "ended"]
                       ELSE runs[j]]
    /\ running_tasks' = <<>>
    /\ UNCHANGED <<nUpd, schedVars, storeVars, logVars>>
    /\ UNCHANGED otherVars

\* Exceptions that resolving the runner, sending a message or the engine's
\* stream can raise inside _run_engine; each is a subclass of Exception.
ExceptionKinds == {"TransportError", "OSError"}

\* _run_engine with except TransportError where except Exception is meant.
worker_failed_transport_only(exc) == exc = "TransportError"

\* The except Exception clause of _run_engine takes the exception and logs
\* handle.worker_failed.
worker_failed(exc) == exc \in ExceptionKinds

\* An exception is raised in run j, while it resolves its runner or while it
\* streams. Caught, it ends that run, after the release block of
\* handle_message when a task was entered. Not caught, it leaves the task and
\* the root task group cancels every other task.
RunRaises(j, exc) ==
    /\ ~shutdown
    /\ runs[j].pc \in {"spawned", "running"}
    /\ IF worker_failed(exc)
       THEN /\ runs' = IF runs[j].pc = "running"
                       THEN [Released(runs, j) EXCEPT ![j].raised = TRUE]
                       ELSE [runs EXCEPT ![j].pc = "ended", ![j].raised = TRUE]
            /\ running_tasks' = Popped(running_tasks, runs[j].ref)
            /\ UNCHANGED shutdown
       ELSE /\ shutdown' = TRUE
            /\ runs' = [i \in Jobs |->
                          IF runs[i].pc = "running" THEN Released(runs, i)[i]
                          ELSE IF runs[i].pc \in {"waiting", "spawned"}
                               THEN [runs[i] EXCEPT !.pc = "ended"]
                               ELSE runs[i]]
            /\ running_tasks' = <<>>
    /\ UNCHANGED <<nUpd, schedVars, storeVars, logVars>>
    /\ UNCHANGED otherVars

(***************************************************************************)
(* Coalesced edits of a progress message. A ProgressState is named by its  *)
(* version: the n-th state the run produced is n.                          *)
(***************************************************************************)
\* Progress states a run produces before its final one.
MaxStates == 3

EditRefs == {ProgressMsgId(1), ProgressMsgId(2)}

NoEdits ==
    [phase |-> "streaming", seq |-> 0, inflight |-> {}, buffered |-> None,
     issued |-> <<>>, shown |-> 0]

EditInit == edits = [r \in EditRefs |-> NoEdits]

\* A buffer that keeps the first snapshot it was given.
BufferKeepsFirst(old, new) == IF old = None THEN new ELSE old

\* The buffer holds the latest snapshot: last write wins.
Buffer(old, new) == new

\* A new ProgressState: edit now, or buffer it while an edit is in flight.
Submit(e, v) ==
    IF e.inflight = {}
    THEN [e EXCEPT !.seq = v, !.inflight = {v}, !.issued = Append(@, v)]
    ELSE [e EXCEPT !.seq = v, !.buffered = Buffer(@, v)]

\* An engine event changes the ProgressState of the run behind message r.
ProgressUpdate(r) ==
    /\ edits[r].phase = "streaming"
    /\ edits[r].seq < MaxStates
    /\ edits' = [edits EXCEPT ![r] = Submit(@, @.seq + 1)]
    /\ UNCHANGED exceptEdits

\* The turn ends (done, error or cancelled): the final state is rendered.
TurnEnd(r) ==
    /\ edits[r].phase = "streaming"
    /\ edits' = [edits EXCEPT ![r] = [Submit(@, @.seq + 1) EXCEPT !.phase = "final"]]
    /\ UNCHANGED exceptEdits

\* The edit in flight resolves (ok: the chat took it); a buffered snapshot
\* is issued as the one follow-up edit.
EditResolved(r, ok) ==
    /\ edits[r].inflight # {}
    /\ \E v \in edits[r].inflight :
          LET e == edits[r]
              landed == [e EXCEPT !.shown = IF ok THEN v ELSE @,
                                  !.inflight = @ \ {v}]
          IN  edits' = [edits EXCEPT ![r] =
                  IF e.buffered = None
                  THEN landed
                  ELSE [landed EXCEPT !.inflight = @ \cup {e.buffered},
                                      !.issued = Append(@, e.buffered),
                                      !.buffered = None]]
    /\ UNCHANGED exceptEdits

\* Nothing is in flight or buffered after the final render: the run is done.
EditsDone(r) ==
    /\ edits[r].phase = "final"
    /\ edits[r].inflight = {}
    /\ edits[r].buffered = None
    /\ edits' = [edits EXCEPT ![r].phase = "done"]
    /\ UNCHANGED exceptEdits

(***************************************************************************)
(* TransportRuntime.resolve_message. Its inputs are what the parsers make  *)
(* of the text and the replied-to text, and the projects configuration.    *)
(***************************************************************************)
\* Python's None where a string is expected.
NoValue == "none"

Projects == {"p1", "p2"}
Branches == {"feat"}

\* projects[p].default_engine in the configuration of the model.
ProjectDefaultEngine(p) == IF p = "p1" THEN "pi" ELSE NoValue

\* RunContext, and None where a RunContext is expected.
RunContext(project, branch) == [project |-> project, branch |-> branch]
\* None is not a RunContext; its project and branch read as absent.
NoContext == [project |-> NoValue, branch |-> NoValue, none |-> TRUE]
\* A context line names a project, a branch or both.
Contexts ==
    {RunContext(p, b) : p \in Projects \cup {NoValue}, b \in Branches \cup {NoValue}}
        \ {RunContext(NoValue, NoValue)}

\* directives: project, branch, engine. reply_ctx: parse_context_line of the
\* replied-to text. resume_token: router.resolve_resume. chat_project:
\* project_for_chat(chat_id). ambient_context: the topic's bound context that
\* the main loop holds when it calls.
ResolveInputs ==
    [project : Projects \cup {NoValue},
     branch : Branches \cup {NoValue},
     engine : Engines \cup {NoValue},
     reply_ctx : Contexts \cup {NoContext},
     resume_token : {NoToken, OldToken},
     ambient_context : {NoContext, RunContext("p2", NoValue)},
     chat_project : Projects \cup {NoValue},
     default_project : {NoValue, "p2"}]

ResolvedMessage(resume_token, engine_override, context) ==
    [resume_token |-> resume_token, engine_override |-> engine_override,
     context |-> context]

\* The resume branch with the engine directive let through.
resolve_with_resume_keeps_engine(in) ==
    ResolvedMessage(in.resume_token, in.engine,
        IF in.reply_ctx # NoContext THEN in.reply_ctx
        ELSE IF in.chat_project # NoValue
             THEN RunContext(in.chat_project, NoValue)
             ELSE NoContext)

\* The resume branch falling back to the directives and the global default.
resolve_with_resume_invents(in) ==
    ResolvedMessage(in.resume_token, NoValue,
        IF in.reply_ctx # NoContext THEN in.reply_ctx
        ELSE IF in.chat_project # NoValue \/ in.default_project # NoValue
             THEN RunContext(IF in.chat_project # NoValue THEN in.chat_project
                             ELSE in.default_project, "main")
             ELSE NoContext)

\* Lines 128-138: a resume token was resolved.
resolve_with_resume(in) ==
    ResolvedMessage(in.resume_token, NoValue,
        IF in.reply_ctx # NoContext THEN in.reply_ctx
        ELSE IF in.chat_project # NoValue
             THEN RunContext(in.chat_project, NoValue)
             ELSE NoContext)

\* Lines 140-151: no resume token, the reply carries a context line.
resolve_with_reply_ctx(in) ==
    ResolvedMessage(NoToken,
        IF in.reply_ctx.project # NoValue
        THEN ProjectDefaultEngine(in.reply_ctx.project)
        ELSE NoValue,
        in.reply_ctx)

\* project_key with the global default read before the chat's project.
project_key_default_first(in) ==
    IF in.project # NoValue THEN in.project
    ELSE IF in.default_project # NoValue THEN in.default_project
         ELSE in.chat_project

\* Lines 153-155.
project_key(in) ==
    IF in.project # NoValue THEN in.project
    ELSE IF in.chat_project # NoValue THEN in.chat_project
         ELSE in.default_project

\* A context built whether or not a project or a branch was selected.
context_always(project, branch) == RunContext(project, branch)

\* Lines 157-159.
context_of(project, branch) ==
    IF project # NoValue \/ branch # NoValue
    THEN RunContext(project, branch)
    ELSE NoContext

\* Lines 153-172: neither a resume token nor a reply context line.
resolve_from_directives(in) ==
    ResolvedMessage(NoToken,
        IF in.engine # NoValue THEN in.engine
        ELSE IF project_key(in) # NoValue
             THEN ProjectDefaultEngine(project_key(in))
             ELSE NoValue,
        context_of(project_key(in), in.branch))

resolve_message(in) ==
    IF in.resume_token # NoToken THEN resolve_with_resume(in)
    ELSE IF in.reply_ctx # NoContext THEN resolve_with_reply_ctx(in)
    ELSE resolve_from_directives(in)

NoCall ==
    [in |-> [project |-> NoValue, branch |-> NoValue, engine |-> NoValue,
             reply_ctx |-> NoContext, resume_token |-> NoToken,
             ambient_context |-> NoContext, chat_project |-> NoValue,
             default_project |-> NoValue],
     called |-> FALSE,
     out |-> ResolvedMessage(NoToken, NoValue, NoContext)]

\* The main loop calls resolve_message for the message it holds.
Resolve ==
    /\ ~res.called
    /\ res' = [res EXCEPT !.called = TRUE, !.out = resolve_message(res.in)]
    /\ UNCHANGED exceptRes

(***************************************************************************)
(* TransportRuntime.resolve_engine.                                        *)
(***************************************************************************)
\* The router's engines; the projects a context can name, one of them not
\* in the configuration.
EngineIds == Engines \cup {"claude"}
ContextProjects == Projects \cup {"ghost"}

\* engine_override, context and the router's default_engine.
EngineInputs ==
    [engine_override : EngineIds \cup {NoValue},
     context : {NoContext} \cup
               {RunContext(p, b) : p \in ContextProjects \cup {NoValue},
                                   b \in Branches \cup {NoValue}},
     default_engine : Engines]

\* A resolve_engine that reads the project's default before the override.
resolve_engine_project_first(in) ==
    IF in.context.project \in Projects
       /\ ProjectDefaultEngine(in.context.project) # NoValue
    THEN ProjectDefaultEngine(in.context.project)
    ELSE IF in.engine_override # NoValue THEN in.engine_override
    ELSE in.default_engine

resolve_engine(in) ==
    IF in.engine_override # NoValue THEN in.engine_override
    ELSE IF in.context = NoContext \/ in.context.project = NoValue
    THEN in.default_engine
    ELSE IF in.context.project \notin Projects THEN in.default_engine
    ELSE IF ProjectDefaultEngine(in.context.project) # NoValue
         THEN ProjectDefaultEngine(in.context.project)
         ELSE in.default_engine

NoEngineCall ==
    [in |-> [engine_override |-> NoValue, context |-> NoContext,
             default_engine |-> "codex"],
     called |-> FALSE,
     out |-> NoValue]

EngInit == eng = NoEngineCall

\* A caller asks the runtime which engine a run will use.
ResolveEngine ==
    /\ ~eng.called
    /\ eng' = [eng EXCEPT !.called = TRUE, !.out = resolve_engine(eng.in)]
    /\ UNCHANGED exceptEng

(***************************************************************************)
(* ExecProgressRenderer (render.py): the recent-actions ring and the step  *)
(* count. The three deques of the code (lines, ids, completed flags) move   *)
(* together and are one sequence of entries here.                          *)
(***************************************************************************)
\* The capacity of the ring in the model, and the events fed to a renderer.
max_actions == 3
MaxEvents == 5

ActionIds == {"a", "b", "c", "d"}
STATUS_RUNNING == "running"
STATUS_UPDATE == "update"
STATUS_DONE == "done"
STATUS_FAIL == "fail"

\* The ok flag of an ActionEvent: None, True or False.
OkFlags == {"None", "True", "False"}

\* action.detail.get("exit_code"): whether it is an int, and its value; no
\* exit code is None, which is no int.
NoExitCode == [is_int |-> FALSE, value |-> 0]
ExitCodes ==
    {NoExitCode, [is_int |-> FALSE, value |-> 1]}
    \cup [is_int : {TRUE}, value : {-1, 0, 1, 2}]

\* ActionEvent(action, phase, ok) of an action that has an id.
CountedEvents ==
    [type : {"action"}, id : ActionIds, kind : {"command"},
     phase : {"started", "updated"}, ok : {"None"}, exit_code : {NoExitCode}]
    \cup
    [type : {"action"}, id : ActionIds, kind : {"command"},
     phase : {"completed"}, ok : {"True", "False"}, exit_code : {NoExitCode}]

\* The end of a turn, and an action with an empty id.
IgnoredEvents ==
    {[type |-> "action", id |-> "a", kind |-> "turn", phase |-> "completed",
      ok |-> "True", exit_code |-> NoExitCode],
     [type |-> "action", id |-> "", kind |-> "command", phase |-> "started",
      ok |-> "None", exit_code |-> NoExitCode]}

ActionEvents == CountedEvents \cup IgnoredEvents

\* StartedEvent(resume, title).
StartedEvents ==
    [type : {"started"}, id : {""}, kind : {"session"}, phase : {"started"},
     ok : {"None"}, exit_code : {NoExitCode}]

NewRenderer ==
    [recent_actions |-> <<>>, action_count |-> 0,
     started_counts |-> [a \in ActionIds |-> 0],
     resume_token |-> NoToken,
     seen |-> {}, fed |-> 0, op |-> "none",
     noted |-> [id |-> "", phase |-> "none"]]

ProgressInit == progress = NewRenderer

\* f"{status} {title}{suffix}": the title is that of the action.
Line(status, id) == <<status, id>>

\* A status symbol that looks at the exit code before the ok flag.
action_status_symbol_exit_first(completed, ok, exit_code) ==
    IF ~completed THEN STATUS_RUNNING
    ELSE IF exit_code.is_int /\ exit_code.value # 0 THEN STATUS_FAIL
    ELSE IF ok # "None" THEN (IF ok = "True" THEN STATUS_DONE ELSE STATUS_FAIL)
    ELSE STATUS_DONE

action_status_symbol(completed, ok, exit_code) ==
    IF ~completed THEN STATUS_RUNNING
    ELSE IF ok # "None" THEN (IF ok = "True" THEN STATUS_DONE ELSE STATUS_FAIL)
    ELSE IF exit_code.is_int /\ exit_code.value # 0 THEN STATUS_FAIL
    ELSE STATUS_DONE

\* note_event: the status of the line of an event.
event_status(is_update, completed, ok, exit_code) ==
    IF is_update /\ ~completed THEN STATUS_UPDATE
    ELSE action_status_symbol(completed, ok, exit_code)

\* The events whose status is chosen: the phase, the count of starts of the
\* action that are not completed yet, the ok flag and the exit code.
SymbolInputs ==
    [phase : {"started", "updated", "completed"}, started_count : {0, 1},
     ok : OkFlags, exit_code : ExitCodes]

NoSymbol == [in |-> NoValue, status |-> NoValue, done |-> FALSE]

SymbolIdle == symbol = [NoSymbol EXCEPT !.done = TRUE]

\* note_event chooses the status of the line of the event.
ChooseStatus ==
    /\ ~symbol.done
    /\ LET in == symbol.in
           completed == in.phase = "completed"
           is_update == ~completed /\ (in.phase = "updated" \/ in.started_count > 0)
       IN  symbol' = [symbol EXCEPT
                        !.status = event_status(is_update, completed, in.ok,
                                                in.exit_code),
                        !.done = TRUE]
    /\ UNCHANGED exceptSymbol

\* A full ring that drops its newest entry.
EvictNewest(ring) == SubSeq(ring, 1, Len(ring) - 1)

\* popleft() on the three deques.
Evict(ring) == Tail(ring)

\* The index _append_action's loop stops at: the last entry with this id
\* that is not completed; 0 when there is none.
OpenIndex(ring, id) ==
    LET hits == {i \in 1..Len(ring) : ring[i].id = id /\ ~ring[i].completed}
    IN  IF hits = {} THEN 0 ELSE CHOOSE i \in hits : \A k \in hits : k <= i

\* An update in place that marks the entry completed whatever the phase.
append_action_completes(r, id, completed, line) ==
    LET ring == r.recent_actions
        i == OpenIndex(ring, id)
        entry == [id |-> id, completed |-> completed, line |-> line]
    IN  IF i # 0
        THEN [r EXCEPT !.recent_actions[i].line = line,
                       !.recent_actions[i].completed = TRUE,
                       !.op = "replaced"]
        ELSE [r EXCEPT !.recent_actions =
                          Append(IF Len(ring) >= max_actions THEN Evict(ring)
                                 ELSE ring, entry),
                       !.op = "appended"]

\* _append_action(action_id, completed=completed, line=line).
append_action(r, id, completed, line) ==
    LET ring == r.recent_actions
        i == OpenIndex(ring, id)
        entry == [id |-> id, completed |-> completed, line |-> line]
    IN  IF i # 0
        THEN [r EXCEPT !.recent_actions[i].line = line,
                       !.recent_actions[i].completed = (@ \/ completed),
                       !.op = "replaced"]
        ELSE [r EXCEPT !.recent_actions =
                          Append(IF Len(ring) >= max_actions THEN Evict(ring)
                                 ELSE ring, entry),
                       !.op = "appended"]

\* note_event for an ActionEvent that is counted: kind not turn, id not "".
note_action(r, ev) ==
    LET completed == ev.phase = "completed"
        started_count == r.started_counts[ev.id]
        is_update == ~completed /\ (ev.phase = "updated" \/ started_count > 0)
        counted ==
            IF completed
            THEN IF started_count <= 0
                 THEN [r EXCEPT !.action_count = @ + 1]
                 ELSE [r EXCEPT !.started_counts[ev.id] = @ - 1]
            ELSE IF started_count = 0
                 THEN [r EXCEPT !.action_count = @ + 1,
                                !.started_counts[ev.id] = 1]
                 ELSE IF ev.phase = "started"
                      THEN [r EXCEPT !.started_counts[ev.id] = @ + 1]
                      ELSE r
        status == event_status(is_update, completed, ev.ok, ev.exit_code)
    IN  append_action([counted EXCEPT !.seen = @ \cup {ev.id},
                                      !.noted = [id |-> ev.id, phase |-> ev.phase]],
                      ev.id, completed, Line(status, ev.id))

\* ExecProgressRenderer.note_event.
note_event(r, ev) ==
    IF ev.type = "started"
    THEN [r EXCEPT !.resume_token = OldToken, !.op = "session"]
    ELSE IF ev.kind = "turn" \/ ev.id = ""
    THEN [r EXCEPT !.op = "ignored"]
    ELSE note_action(r, ev)

\* The run feeds the renderer the next event of the engine.
NoteEvent(ev) ==
    /\ progress.fed < MaxEvents
    /\ progress' = [note_event(progress, ev) EXCEPT !.fed = @ + 1]
    /\ UNCHANGED exceptProgress

(***************************************************************************)
(* Media groups (bridge.py): the documents of one (chat_id, media_group_id) *)
(* and the task that flushes them. Time is counted in ticks; the debounce  *)
(* _MEDIA_GROUP_DEBOUNCE_S is DebounceTicks ticks long. A sleep ends at its *)
(* deadline or any time later.                                             *)
(***************************************************************************)
MaxDocs == 3
DebounceTicks == 2
MaxTime == MaxDocs * DebounceTicks + 1

\* media_groups.get(key) is None.
NoGroup == [messages |-> <<>>, token |-> 0]

MediaInit ==
    media = [now |-> 0,
             state |-> NoGroup,       \* media_groups[key]: messages, token
             present |-> FALSE,       \* key in media_groups
             pc |-> "none",           \* flush_media_group: none, start, sleeping
             token |-> 0,             \* the token the flush task read
             wakeAt |-> 0,            \* when its sleep ends
             arrived |-> 0,           \* documents the poller has received
             seen |-> 0,              \* documents the main loop has reached
             awaiting |-> FALSE,      \* the main loop is inside an await
             lastArrival |-> 0,
             burst |-> TRUE,          \* every gap so far is below the debounce
             lastTaken |-> 0,         \* when the main loop last appended a document
             flushers |-> 0,          \* flush tasks that have not deleted the state
             again |-> FALSE,         \* a wake-up has found the token moved
             handled |-> <<>>]        \* the calls of _handle_media_group

\* A flush task that never compares the tokens.
TokenMovedNever(state_token, token) == FALSE

\* state.token != token.
TokenMoved(state_token, token) == state_token # token

\* Time passes, unless the main loop is free and has an update to take.
Tick ==
    /\ media.now < MaxTime
    /\ media.awaiting \/ media.seen = media.arrived
    /\ media' = [media EXCEPT !.now = @ + 1]
    /\ UNCHANGED exceptMedia

\* The chat delivers the next document of the group to the poller.
DocumentArrives ==
    /\ media.arrived < MaxDocs
    /\ media' = [media EXCEPT
          !.arrived = @ + 1,
          !.lastArrival = media.now,
          !.burst = @ /\ (media.arrived = 0
                           \/ media.now - media.lastArrival < DebounceTicks)]
    /\ UNCHANGED exceptMedia

\* The main loop takes an update that is not of the group and awaits its
\* work in line: text = await _transcribe_voice(cfg, msg), await _send_plain.
LoopAwaits ==
    /\ ~media.awaiting
    /\ media' = [media EXCEPT !.awaiting = TRUE]
    /\ UNCHANGED exceptMedia

\* The await returns and the main loop goes on to the next update.
LoopResumes ==
    /\ media.awaiting
    /\ media' = [media EXCEPT !.awaiting = FALSE]
    /\ UNCHANGED exceptMedia

\* The main loop reaches a document of the group: the state is created and
\* its flush task started if the key is new; the message is appended and
\* the token moved.
LoopTakesDocument ==
    /\ ~media.awaiting
    /\ media.seen < media.arrived
    /\ media' = [media EXCEPT
          !.seen = @ + 1,
          !.present = TRUE,
          !.lastTaken = media.now,
          !.flushers = IF media.present THEN @ ELSE @ + 1,
          !.pc = IF media.present THEN @ ELSE "start",
          !.state = [messages |-> Append(IF media.present THEN @.messages ELSE <<>>,
                                         media.seen + 1),
                     token |-> (IF media.present THEN @.token ELSE 0) + 1]]
    /\ UNCHANGED exceptMedia

\* flush_media_group reads the token and goes to sleep.
FlushSleep ==
    /\ media.pc = "start"
    /\ media' = [media EXCEPT !.pc = "sleeping",
                              !.token = media.state.token,
                              !.wakeAt = media.now + DebounceTicks]
    /\ UNCHANGED exceptMedia

\* A flush task that hands the messages over and leaves the state in place
\* for its next wake-up.
FlushWakeKeepsState ==
    /\ media.pc = "sleeping"
    /\ media.now >= media.wakeAt
    /\ media' = [media EXCEPT !.token = media.state.token,
                              !.wakeAt = media.now + DebounceTicks,
                              !.handled = IF Len(@) < MaxDocs
                                          THEN Append(@, media.state.messages)
                                          ELSE @]
    /\ UNCHANGED exceptMedia

\* The sleep is over: sleep again if the token moved, else take the
\* messages, delete the state and call the handler.
FlushWake ==
    /\ media.pc = "sleeping"
    /\ media.now >= media.wakeAt
    /\ IF TokenMoved(media.state.token, media.token)
       THEN media' = [media EXCEPT !.token = media.state.token,
                                   !.again = TRUE,
                                   !.wakeAt = media.now + DebounceTicks]
       ELSE media' = [media EXCEPT !.pc = "none",
                                   !.present = FALSE,
                                   !.flushers = @ - 1,
                                   !.state = NoGroup,
                                   !.handled = Append(@, media.state.messages)]
    /\ UNCHANGED exceptMedia

(***************************************************************************)
(* The routing of one update by the main loop (bridge.py, run_main_loop).  *)
(* The update arrives in chat ChatId; another chat holds a running task    *)
(* whose progress message has the same message id.                         *)
(***************************************************************************)
CANCEL_CALLBACK_DATA == "takopi:cancel"
TOPICS_COMMANDS == {"ctx", "new", "topic"}
RESERVED_COMMAND_IDS == {"cancel", "ctx", "new", "topic", "file"}

ChatId == 1
TaskRefs == {<<1, 2>>, <<2, 2>>}
MessageIds == {2, 6}

\* str.lower on the names of the model.
Lower(s) ==
    IF s = "P1" THEN "p1"
    ELSE IF s = "Codex" THEN "codex"
    ELSE IF s = "Cancelled" THEN "cancelled"
    ELSE s

\* The runtime's configuration: its engines and its project aliases.
RouteEngineIds == {"Codex"}
RouteAliases == {"P1"}
\* The plugin commands an installation may have, a plain one and ones that
\* carry the id of an engine, of a project or of a built-in command.
PluginIds == {"plug", "codex", "p1", "cancel", "ctx", "file"}

\* A text is its first token ("/" name ["@bot"]) and whether anything else
\* than white space is in it; a text without command has name "".
Texts ==
    [slash : {FALSE}, name : {""}, at : {FALSE}, blank : BOOLEAN]
    \cup [slash : {TRUE}, name : {"cancel", "file", "ctx", "codex", "P1", "plug"},
          at : {FALSE}, blank : {FALSE}]
    \cup {[slash |-> TRUE, name |-> "cancel", at |-> TRUE, blank |-> FALSE]}

is_cancel_command(text) ==
    IF text.blank THEN FALSE
    ELSE text.slash /\ text.name = "cancel"

parse_slash_command(text) ==
    IF ~text.slash THEN NoValue
    ELSE IF text.name = "" THEN NoValue
    ELSE Lower(text.name)

\* A set of reserved commands that forgets the project aliases.
reserved_commands_no_aliases(engine_ids, aliases) ==
    {Lower(e) : e \in engine_ids} \cup RESERVED_COMMAND_IDS

reserved_commands(engine_ids, aliases) ==
    {Lower(e) : e \in engine_ids} \cup {Lower(a) : a \in aliases}
        \cup RESERVED_COMMAND_IDS

merge_topic_context(chat_project, bound) ==
    IF chat_project = NoValue THEN bound
    ELSE IF bound = NoContext THEN RunContext(chat_project, NoValue)
    ELSE IF bound.project = NoValue THEN RunContext(chat_project, bound.branch)
    ELSE bound

\* _topic_key(msg, cfg) is not None.
topic_key(in) == in.topics.enabled /\ in.topics.allowed /\ in.topics.thread

\* topic_store is not None: the store is made at startup when topics are on.
topic_store(in) == in.topics.enabled

ambient_context(in) ==
    merge_topic_context(IF in.topics.enabled THEN in.chat_project ELSE NoValue,
                        IF topic_store(in) /\ topic_key(in) THEN in.bound
                        ELSE NoContext)

\* The topics settings and the place of the message: off; on in a chat out
\* of scope; on in an allowed chat outside any topic; on in a topic.
TopicsSettings ==
    {[enabled |-> FALSE, allowed |-> FALSE, thread |-> t] : t \in BOOLEAN}
    \cup {[enabled |-> TRUE, allowed |-> a, thread |-> TRUE] : a \in BOOLEAN}
    \cup {[enabled |-> TRUE, allowed |-> TRUE, thread |-> FALSE]}

\* What resolve_message answers: a DirectiveError, or a context with the
\* source it was taken from; the ambient context is the source of a context
\* only when there is one.
Resolutions(ambient) ==
    {[error |-> TRUE, context_source |-> "none", context |-> NoContext,
      resume_token |-> NoToken]}
    \cup {[error |-> FALSE, context_source |-> s,
           context |-> RunContext("p1", NoValue), resume_token |-> t] :
             s \in {"directives", "reply_ctx"}, t \in {NoToken, OldToken}}
    \cup {[error |-> FALSE, context_source |-> s, context |-> ambient,
           resume_token |-> t] :
             s \in IF ambient = NoContext THEN {"none"}
                   ELSE {"topic_bind", "chat_default"},
             t \in {NoToken, OldToken}}

RouteTasks ==
    {[r \in TaskRefs |-> IF r \in S THEN "running" ELSE "absent"] :
        S \in {{}, {<<2, 2>>}, TaskRefs}}

CallbackInputs ==
    [kind : {"callback"}, data : {CANCEL_CALLBACK_DATA, "other"},
     message_id : MessageIds, tasks : RouteTasks]

MessageSettings ==
    [kind : {"message"},
     text : Texts,
     reply : {[id |-> None, text |-> FALSE], [id |-> None, text |-> TRUE],
              [id |-> 2, text |-> TRUE], [id |-> 6, text |-> TRUE]},
     document : {"none", "single", "group"},
     files_enabled : BOOLEAN,
     topics : TopicsSettings,
     chat_project : {NoValue, "p1"},
     bound : {NoContext, RunContext("p2", "feat"), RunContext(NoValue, "feat")},
     command_ids : {{}, {"plug"}, PluginIds},
     stored : BOOLEAN,
     file_checks : BOOLEAN,
     tasks : RouteTasks]

\* A topic binding and a stored session are read only for a message in a
\* topic; a document comes with a caption or without; file_checks is
\* whether a file transfer passes parse_file_command, the check of the
\* sender's permissions and, for a put, the check that a document is there.
Admissible(m) ==
    /\ (m.bound # NoContext => topic_key(m))
    /\ (m.stored => topic_key(m))
    /\ (~m.file_checks => (m.files_enabled /\ (m.text.name = "file" \/ m.document = "single")))
    /\ (m.document # "none" =>
          (~m.text.slash \/ m.text.name \in {"cancel", "file"}))

\* The message with the plugins a refresh of the cache finds and with the
\* answer of resolve_message.
Message(m, installed, resolved) ==
    [kind |-> m.kind, text |-> m.text, reply |-> m.reply,
     document |-> m.document, files_enabled |-> m.files_enabled,
     topics |-> m.topics, chat_project |-> m.chat_project,
     bound |-> m.bound, command_ids |-> m.command_ids,
     installed |-> installed, resolved |-> resolved, stored |-> m.stored,
     file_checks |-> m.file_checks, tasks |-> m.tasks]


\* The effects of an update: the branch that took it, the running tasks
\* after it, the reply sent, the answer to a callback query, and whether a
\* run was started, a job enqueued, a plugin called, a topic bound or the
\* command cache refreshed.
Effects(handler, in) ==
    [handler |-> handler, tasks |-> in.tasks, reply |-> NoValue,
     answered |-> FALSE, answer |-> NoValue, run_job |-> FALSE,
     enqueue |-> FALSE, dispatched |-> FALSE, set_context |-> FALSE,
     refreshed |-> FALSE]

NoRoute == [in |-> NoValue, out |-> NoValue, done |-> FALSE]

RouteIdle == route = [NoRoute EXCEPT !.done = TRUE]

\* A lookup by the message id alone, whatever the chat.
KeyedAnyChat(tasks, ref) == \E r \in TaskRefs : r[2] = ref[2] /\ tasks[r] # "absent"

\* running_tasks.get(ref) is not None.
Keyed(tasks, ref) == IF ref \in TaskRefs THEN tasks[ref] # "absent" ELSE FALSE

\* A cancel that sets the flag of every task with that message id.
cancel_requested_set_all(tasks, ref) ==
    [r \in TaskRefs |-> IF r[2] = ref[2] /\ tasks[r] # "absent"
                        THEN "cancel_requested" ELSE tasks[r]]

\* running_task.cancel_requested.set()
cancel_requested_set(tasks, ref) == [tasks EXCEPT ![ref] = "cancel_requested"]

handle_callback_cancel(in) ==
    LET progress_ref == <<ChatId, in.message_id>> IN
    IF ~Keyed(in.tasks, progress_ref)
    THEN [Effects("callback_cancel", in) EXCEPT
            !.answered = TRUE,
            !.answer = "nothing is currently running for that message."]
    ELSE [Effects("callback_cancel", in) EXCEPT
            !.tasks = cancel_requested_set(in.tasks, progress_ref),
            !.answered = TRUE,
            !.answer = "cancelling..."]

handle_cancel(in) ==
    IF in.reply.id = None
    THEN IF in.reply.text
         THEN [Effects("cancel", in) EXCEPT
                 !.reply = "nothing is currently running for that message."]
         ELSE [Effects("cancel", in) EXCEPT
                 !.reply = "reply to the progress message to cancel."]
    ELSE LET progress_ref == <<ChatId, in.reply.id>> IN
         IF ~Keyed(in.tasks, progress_ref)
         THEN [Effects("cancel", in) EXCEPT
                 !.reply = "nothing is currently running for that message."]
         ELSE [Effects("cancel", in) EXCEPT
                 !.tasks = cancel_requested_set(in.tasks, progress_ref)]

\* for an update that is a callback query
route_callback(in) ==
    IF in.data = CANCEL_CALLBACK_DATA
    THEN handle_callback_cancel(in)
    ELSE [Effects("answer_callback_query", in) EXCEPT !.answered = TRUE]

\* cfg.files.auto_put of the configuration.
auto_put == TRUE

\* A cache that is never refreshed.
in_command_ids_no_refresh(in, command_id) == command_id \in in.command_ids

\* command_id in command_cache.command_ids, after the refresh that an
\* unknown command causes.
in_command_ids(in, command_id) ==
    IF command_id \notin in.command_ids
    THEN command_id \in in.installed
    ELSE TRUE

\* A bind that does not ask where the context came from.
maybe_update_topic_context_any_source(in) ==
    /\ topic_store(in)
    /\ topic_key(in)
    /\ in.resolved.context # NoContext

\* _maybe_update_topic_context calls topic_store.set_context.
maybe_update_topic_context(in) ==
    /\ topic_store(in)
    /\ topic_key(in)
    /\ in.resolved.context # NoContext
    /\ in.resolved.context_source = "directives"

\* _handle_file_command and _handle_file_put_default: after their checks
\* and the resolution of the arguments they bind the topic; a
\* DirectiveError is answered with the error.
handle_file(handler, in) ==
    IF ~in.file_checks THEN [Effects(handler, in) EXCEPT !.reply = "file error"]
    ELSE IF in.resolved.error THEN [Effects(handler, in) EXCEPT !.reply = "error:"]
    ELSE [Effects(handler, in) EXCEPT !.set_context = maybe_update_topic_context(in)]

\* A guard that never rejects.
unbound_topic_never(in, ambient, context_source) == FALSE

\* The default-project guard: the topic has no context at all and the
\* message brought none.
unbound_topic(in, ambient, context_source) ==
    /\ topic_store(in)
    /\ topic_key(in)
    /\ ambient = NoContext
    /\ context_source \notin {"directives", "reply_ctx"}

\* from the resolution of the message to the run or the job
route_resolved(in) ==
    LET resolved == in.resolved
        binds == /\ topic_store(in)
                 /\ topic_key(in)
                 /\ resolved.context # NoContext
                 /\ resolved.context_source = "directives"
        ambient == IF binds THEN resolved.context ELSE ambient_context(in)
        replied == /\ resolved.resume_token = NoToken
                   /\ in.reply.id # None
                   /\ Keyed(in.tasks, <<ChatId, in.reply.id>>)
        resume_token == IF /\ resolved.resume_token = NoToken
                           /\ topic_store(in)
                           /\ topic_key(in)
                           /\ in.stored
                        THEN OldToken
                        ELSE resolved.resume_token
    IN  IF resolved.error
        THEN [Effects("directive_error", in) EXCEPT !.reply = "error:"]
        ELSE IF unbound_topic(in, ambient, resolved.context_source)
        THEN [Effects("unbound_topic", in) EXCEPT
                !.reply = "this topic isn't bound to a project yet.",
                !.set_context = binds]
        ELSE IF replied
        THEN [Effects("send_with_resume", in) EXCEPT
                !.enqueue = TRUE, !.set_context = binds]
        ELSE IF resume_token = NoToken
        THEN [Effects("run_job", in) EXCEPT
                !.run_job = TRUE, !.set_context = binds]
        ELSE [Effects("enqueue_resume", in) EXCEPT
                !.enqueue = TRUE, !.set_context = binds]

\* for an update that is a message: the branches in the order of the loop
route_message(in) ==
    LET command_id == parse_slash_command(in.text) IN
    IF in.files_enabled /\ in.document = "group"
    THEN Effects("media_group", in)
    ELSE IF is_cancel_command(in.text)
    THEN handle_cancel(in)
    ELSE IF command_id = "file"
    THEN IF ~in.files_enabled
         THEN [Effects("file", in) EXCEPT !.reply = "file transfer disabled"]
         ELSE handle_file("file", in)
    ELSE IF in.document # "none"
    THEN IF in.files_enabled /\ auto_put /\ in.text.blank
         THEN handle_file("file_put_default", in)
         ELSE IF in.files_enabled
         THEN [Effects("document", in) EXCEPT !.reply = "file_put_usage"]
         ELSE Effects("document", in)
    ELSE IF in.topics.enabled /\ topic_store(in) /\ command_id \in TOPICS_COMMANDS
    THEN Effects(command_id, in)
    ELSE IF /\ command_id # NoValue
            /\ command_id \notin reserved_commands(RouteEngineIds, RouteAliases)
    THEN LET refreshed == command_id \notin in.command_ids IN
         IF in_command_ids(in, command_id)
         THEN [Effects("dispatch_command", in) EXCEPT !.dispatched = TRUE,
                                                      !.refreshed = refreshed]
         ELSE [route_resolved(in) EXCEPT !.refreshed = refreshed]
    ELSE route_resolved(in)

\* The loop takes a callback query.
RouteCallback ==
    /\ ~route.done
    /\ route.in.kind = "callback"
    /\ route' = [route EXCEPT !.out = route_callback(route.in), !.done = TRUE]
    /\ UNCHANGED exceptRoute

\* The loop takes a message.
RouteMessage ==
    /\ ~route.done
    /\ route.in.kind = "message"
    /\ route' = [route EXCEPT !.out = route_message(route.in), !.done = TRUE]
    /\ UNCHANGED exceptRoute

(***************************************************************************)
(* The frames of the presenter (bridge.py, TelegramPresenter).             *)
(***************************************************************************)
MaxLabel == 4

CANCEL_MARKUP ==
    [inline_keyboard |->
        << << [text |-> "cancel", callback_data |-> CANCEL_CALLBACK_DATA] >> >>]
CLEAR_MARKUP == [inline_keyboard |-> <<>>]

\* A label is a string, here a sequence of pieces: a space, a backtick or a
\* word.
Backtick == "backtick"
LabelPieces == {" ", Backtick, "cancelled", "Cancelled", "working"}
Labels == UNION {[1..n -> LabelPieces] : n \in 0..MaxLabel}
Statuses == {"done", "error", "cancelled"}

RECURSIVE LStrip(_)
LStrip(s) == IF s # <<>> /\ Head(s) = " " THEN LStrip(Tail(s)) ELSE s

RECURSIVE RStrip(_)
RStrip(s) ==
    IF s # <<>> /\ s[Len(s)] = " " THEN RStrip(SubSeq(s, 1, Len(s) - 1)) ELSE s

\* str.strip
Strip(s) == RStrip(LStrip(s))

\* A test for the bare word, backticks not removed.
is_cancelled_label_bare(label) ==
    LET stripped == Strip(label) IN
    [i \in 1..Len(stripped) |-> Lower(stripped[i])] = <<"cancelled">>

is_cancelled_label(label) ==
    LET stripped == Strip(label)
        inner == IF /\ stripped # <<>>
                    /\ Head(stripped) = Backtick
                    /\ stripped[Len(stripped)] = Backtick
                    /\ Len(stripped) >= 2
                 THEN SubSeq(stripped, 2, Len(stripped) - 1)
                 ELSE stripped
    IN  [i \in 1..Len(inner) |-> Lower(inner[i])] = <<"cancelled">>

render_progress(label) ==
    IF is_cancelled_label(label) THEN CLEAR_MARKUP ELSE CANCEL_MARKUP

render_final(status) == CLEAR_MARKUP

FrameInputs ==
    [kind : {"progress"}, label : Labels, status : {NoValue}]
    \cup [kind : {"final"}, label : {<<>>}, status : Statuses]

NoFrame == [in |-> NoValue, reply_markup |-> CLEAR_MARKUP, done |-> FALSE]

FrameIdle == frame = [NoFrame EXCEPT !.done = TRUE]

\* The presenter renders a progress frame.
RenderProgress ==
    /\ ~frame.done
    /\ frame.in.kind = "progress"
    /\ frame' = [frame EXCEPT !.reply_markup = render_progress(frame.in.label),
                              !.done = TRUE]
    /\ UNCHANGED exceptFrame

\* The presenter renders a final frame.
RenderFinal ==
    /\ ~frame.done
    /\ frame.in.kind = "final"
    /\ frame' = [frame EXCEPT !.reply_markup = render_final(frame.in.status),
                              !.done = TRUE]
    /\ UNCHANGED exceptFrame

(***************************************************************************)
(* The command menu (bridge.py, _build_bot_commands).                      *)
(***************************************************************************)
MAX_BOT_COMMANDS == 3
MaxMenuList == 2

\* runtime.available_engine_ids(), runtime.project_aliases() and the ids of
\* the plugin backends, in their order; "bad id" is no valid command name.
MenuEngines == UNION {[1..n -> {"codex", "Codex", "cancel"}] : n \in 0..MaxMenuList}
MenuAliases == UNION {[1..n -> {"P1", "codex", "bad id", "file"}] : n \in 0..MaxMenuList}
MenuPlugins == UNION {[1..n -> {"plug", "P1", "cancel", "file"}] : n \in 0..MaxMenuList}

MenuInputs ==
    [engines : MenuEngines, aliases : MenuAliases, plugins : MenuPlugins,
     include_file : BOOLEAN]

is_valid_id(cmd) == cmd # "bad id"

Command(cmd, description) == [command |-> cmd, description |-> description]

NoCommands == [commands |-> <<>>, seen |-> {}]

\* One turn of a loop of _build_bot_commands: the command is skipped when it
\* was seen, or when it must be a valid id and is none.
add_command(acc, name, description, validate) ==
    LET cmd == Lower(name) IN
    IF cmd \in acc.seen THEN acc
    ELSE IF validate /\ ~is_valid_id(cmd) THEN acc
    ELSE [commands |-> Append(acc.commands, Command(cmd, description)),
          seen |-> acc.seen \cup {cmd}]

RECURSIVE add_commands(_, _, _, _)
add_commands(acc, names, description, validate) ==
    IF names = <<>> THEN acc
    ELSE add_commands(add_command(acc, Head(names), description, validate),
                      Tail(names), description, validate)

CommandNames(commands) == {commands[i].command : i \in DOMAIN commands}

\* The commands before the cut at the limit.
all_commands(in) ==
    LET engines == add_commands(NoCommands, in.engines, "use agent", FALSE)
        aliases == add_commands(engines, in.aliases, "work on", TRUE)
        plugins == add_commands(aliases, in.plugins, "command", TRUE)
        file == IF in.include_file /\ "file" \notin plugins.seen
                THEN [commands |-> Append(plugins.commands,
                                          Command("file", "upload or fetch files")),
                      seen |-> plugins.seen \cup {"file"}]
                ELSE plugins
    IN  IF "cancel" \notin file.seen
        THEN Append(file.commands, Command("cancel", "cancel run"))
        ELSE file.commands

\* A cut at the limit that keeps whatever comes first.
truncate_plain(commands) ==
    IF Len(commands) > MAX_BOT_COMMANDS
    THEN SubSeq(commands, 1, MAX_BOT_COMMANDS)
    ELSE commands

truncate(commands) ==
    IF Len(commands) > MAX_BOT_COMMANDS
    THEN LET cut == SubSeq(commands, 1, MAX_BOT_COMMANDS) IN
         IF "cancel" \notin CommandNames(cut)
         THEN [cut EXCEPT ![Len(cut)] = Command("cancel", "cancel run")]
         ELSE cut
    ELSE commands

build_bot_commands(in) == truncate(all_commands(in))

NoMenu == [in |-> NoValue, full |-> <<>>, commands |-> <<>>, done |-> FALSE]

MenuIdle == menu = [NoMenu EXCEPT !.done = TRUE]

\* The bot builds its command menu.
BuildBotCommands ==
    /\ ~menu.done
    /\ menu' = [menu EXCEPT !.full = all_commands(menu.in),
                            !.commands = build_bot_commands(menu.in),
                            !.done = TRUE]
    /\ UNCHANGED exceptMenu

(***************************************************************************)
(* The topic commands and the topic store (bridge.py, _handle_ctx_command, *)
(* _handle_new_command, _handle_topic_command, _maybe_rename_topic).       *)
(* Topics are enabled. Messages come from the main chat and from another   *)
(* chat, in their topic 1 or outside any topic; /topic creates topic 2.    *)
(***************************************************************************)
MaxCommands == 3
MaxEditCalls == 2

MainChat == 1
TopicChats == {1, 2}
\* Thread 1 of a chat is the topic the commands are sent in; the threads that
\* create_forum_topic makes are numbered from 2.
ThreadIds == {1, 2, 3}
TopicKeys == TopicChats \X ThreadIds
TopicContexts == {RunContext("p1", NoValue), RunContext("p1", "feat")}

\* cfg.topics.scope and runtime.project_chat_ids()
TopicConfigs ==
    [scope : {"auto", "main", "projects", "all"}, project_chat_ids : {{}, {2}}]

resolve_topics_scope(cfg) ==
    LET scope == IF cfg.scope = "auto"
                 THEN IF cfg.project_chat_ids # {} THEN "projects" ELSE "main"
                 ELSE cfg.scope
    IN  [scope |-> scope,
         chat_ids |-> IF scope = "main" THEN {MainChat}
                      ELSE IF scope = "projects" THEN cfg.project_chat_ids
                      ELSE {MainChat} \cup cfg.project_chat_ids]

\* A scope check that lets every chat in.
topics_chat_allowed_all(cfg, chat_id) == TRUE

topics_chat_allowed(cfg, chat_id) == chat_id \in resolve_topics_scope(cfg).chat_ids

\* None (NoValue), or the text of the error.
topics_command_error(cfg, chat_id) ==
    LET resolved == resolve_topics_scope(cfg).scope IN
    IF topics_chat_allowed(cfg, chat_id) THEN NoValue
    ELSE IF resolved = "main"
    THEN IF cfg.scope = "auto"
         THEN "topics commands are only available in the main chat (auto scope)."
         ELSE "topics commands are only available in the main chat."
    ELSE IF resolved = "projects"
    THEN IF cfg.scope = "auto"
         THEN "topics commands are only available in project chats (auto scope)."
         ELSE "topics commands are only available in project chats."
    ELSE "topics commands are only available in the main or project chats."

\* The title of the topic of a context, as the pieces of the string.
topic_title(context) ==
    IF context.branch # NoValue
    THEN IF context.project # NoValue
         THEN <<context.project, " @", context.branch>>
         ELSE <<"@", context.branch>>
    ELSE IF context.project # NoValue THEN <<context.project>> ELSE <<"topic">>

\* topic_title is None
NoTitle == <<>>

\* An entry of the store.
NoThread ==
    [context |-> NoContext, topic_title |-> NoTitle, sessions |-> FALSE,
     created_by_bot |-> FALSE]

\* store.set_context: a title that is not given is kept.
set_context(store, key, context, title) ==
    [store EXCEPT ![key] = [@ EXCEPT !.context = context,
                                     !.topic_title = IF title = NoTitle THEN @
                                                     ELSE title]]

clear_context(store, key) == [store EXCEPT ![key] = [@ EXCEPT !.context = NoContext]]

clear_sessions(store, key) == [store EXCEPT ![key] = [@ EXCEPT !.sessions = FALSE]]

\* store.find_thread_for_context(chat_id, context) is not None
find_thread_for_context(store, chat_id, context) ==
    \E k \in TopicKeys : k[1] = chat_id /\ store[k].context = context

NoOp == [kind |-> "none", chat_id |-> 0, context |-> NoContext, reply |-> NoValue]

Op(kind, chat_id, context, reply) ==
    [kind |-> kind, chat_id |-> chat_id, context |-> context, reply |-> reply]

\* The bridge starts with a configuration and the store of earlier runs,
\* where a topic may have stored sessions.
NewForum(cfg, stored) ==
    [cfg |-> cfg,
     store |-> [k \in TopicKeys |->
                  [NoThread EXCEPT !.sessions = stored[k[1]] /\ k[2] = 1]],
     created |-> {},      \* the forum topics create_forum_topic has made
     creating |-> {},     \* the calls of create_forum_topic not yet answered
     inflight |-> {},
     edit_calls |-> 0,
     create_calls |-> 0,
     settled |-> [c \in TopicChats |-> NoContext],
     op |-> NoOp,
     n |-> 0]

TopicInit ==
    forum = [NewForum([scope |-> "auto", project_chat_ids |-> {}],
                      [c \in TopicChats |-> FALSE]) EXCEPT !.n = MaxCommands]

\* A rename that is asked for whatever the stored title.
needs_rename_always(store, key, context) == TRUE

\* _maybe_rename_topic: the stored title is not that of the context.
needs_rename(store, key, context) ==
    store[key].topic_title # topic_title(context)

\* A thread is bound to a context and _maybe_rename_topic is called: the
\* context is stored, and edit_forum_topic is called unless the stored title
\* is already that of the context.
Bind(kind, chat_id, context) ==
    LET key == <<chat_id, 1>>
        store == set_context(forum.store, key, context, NoTitle)
        rename == needs_rename(store, key, context)
    IN  /\ rename => forum.edit_calls < MaxEditCalls
        /\ forum' = [forum EXCEPT
              !.store = store,
              !.inflight = IF rename THEN @ \cup {<<chat_id, context>>} ELSE @,
              !.edit_calls = IF rename THEN @ + 1 ELSE @,
              !.settled[chat_id] = IF @ = context THEN @ ELSE NoContext,
              !.op = Op(kind, chat_id, context,
                        IF kind = "ctx set" THEN "topic bound to" ELSE NoValue),
              !.n = @ + 1]

\* edit_forum_topic returns: the title is stored when the topic was renamed.
RenameReturns(chat_id, context, updated) ==
    /\ <<chat_id, context>> \in forum.inflight
    /\ forum' = [forum EXCEPT
          !.inflight = @ \ {<<chat_id, context>>},
          !.store = IF updated
                    THEN set_context(@, <<chat_id, 1>>, context, topic_title(context))
                    ELSE @,
          !.settled[chat_id] = IF updated THEN context ELSE @,
          !.op = Op("rename returns", chat_id, context, NoValue)]
    /\ UNCHANGED exceptTopic

Replies(kind, chat_id, reply) ==
    forum' = [forum EXCEPT !.op = Op(kind, chat_id, NoContext, reply), !.n = @ + 1]

\* /ctx, /ctx set and /ctx clear; context NoContext is arguments that do not
\* parse to a context.
HandleCtx(chat_id, in_topic, action, context) ==
    /\ forum.n < MaxCommands
    /\ LET error == topics_command_error(forum.cfg, chat_id)
           kind == "ctx " \o action
       IN  IF error # NoValue THEN Replies(kind, chat_id, error)
           ELSE IF ~in_topic
           THEN Replies(kind, chat_id, "this command only works inside a topic.")
           ELSE IF action = "show" THEN Replies(kind, chat_id, "status")
           ELSE IF action = "set"
           THEN IF context = NoContext THEN Replies(kind, chat_id, "error:")
                ELSE Bind(kind, chat_id, context)
           ELSE forum' = [forum EXCEPT
                    !.store = clear_context(@, <<chat_id, 1>>),
                    !.settled[chat_id] = NoContext,
                    !.op = Op(kind, chat_id, NoContext, "topic binding cleared."),
                    !.n = @ + 1]
    /\ UNCHANGED exceptTopic

\* /new
HandleNew(chat_id, in_topic) ==
    /\ forum.n < MaxCommands
    /\ LET error == topics_command_error(forum.cfg, chat_id) IN
           IF error # NoValue THEN Replies("new", chat_id, error)
           ELSE IF ~in_topic
           THEN Replies("new", chat_id, "this command only works inside a topic.")
           ELSE forum' = [forum EXCEPT
                    !.store = clear_sessions(@, <<chat_id, 1>>),
                    !.op = Op("new", chat_id, NoContext,
                              "cleared stored sessions for this topic."),
                    !.n = @ + 1]
    /\ UNCHANGED exceptTopic

\* /topic up to its call of create_forum_topic, which it awaits; context
\* NoContext is arguments that do not parse to a context.
HandleTopic(chat_id, context) ==
    /\ forum.n < MaxCommands
    /\ LET error == topics_command_error(forum.cfg, chat_id) IN
           IF error # NoValue THEN Replies("topic", chat_id, error)
           ELSE IF context = NoContext THEN Replies("topic", chat_id, "usage")
           ELSE IF find_thread_for_context(forum.store, chat_id, context)
           THEN Replies("topic", chat_id, "topic already exists")
           ELSE /\ forum.create_calls + 2 \in ThreadIds
                /\ forum' = [forum EXCEPT
                      !.create_calls = @ + 1,
                      !.creating = @ \cup {[chat_id |-> chat_id, context |-> context,
                                            n |-> forum.n]},
                      !.op = Op("topic", chat_id, context, NoValue),
                      !.n = @ + 1]
    /\ UNCHANGED exceptTopic

\* The thread id of the next forum topic made in the chat.
NewThreadId(chat_id) == 2 + Cardinality({t \in forum.created : t.chat_id = chat_id})

\* create_forum_topic returns to the /topic that called it; created is whether
\* it answers with a thread id. With one, the entry is stored and then the
\* two confirmations are sent; without, the failure is reported.
CreateReturns(call, created) ==
    /\ call \in forum.creating
    /\ IF ~created
       THEN forum' = [forum EXCEPT
                !.creating = @ \ {call},
                !.op = Op("topic returns", call.chat_id, call.context,
                          "failed to create topic.")]
       ELSE LET key == <<call.chat_id, NewThreadId(call.chat_id)>> IN
            forum' = [forum EXCEPT
                !.creating = @ \ {call},
                !.created = @ \cup {[chat_id |-> key[1], thread_id |-> key[2],
                                     context |-> call.context]},
                !.store = [set_context(@, key, call.context, topic_title(call.context))
                             EXCEPT ![key].created_by_bot = TRUE],
                !.op = Op("topic returns", call.chat_id, call.context,
                          "created topic")]
    /\ UNCHANGED exceptTopic

\* A message in a topic whose directives give a context: the main loop binds
\* the topic to it.
DirectiveBind(chat_id, context) ==
    /\ forum.n < MaxCommands
    /\ topics_chat_allowed(forum.cfg, chat_id)
    /\ Bind("directives", chat_id, context)
    /\ UNCHANGED exceptTopic

(***************************************************************************)
(* The stored sessions of the topics of the main chat: the loop's sessions *)
(* are the session_resume of the store's entries, topic tp of the loop is  *)
(* the store's key (MainChat, tp).                                         *)
(***************************************************************************)
exceptLoopTopic == <<edits, res, eng, progress, media, route, frame, menu, symbol>>

\* No engine has a stored token.
NoSessions == [e \in Engines |-> NoToken]

\* A /new that forgets the sessions of one engine only.
ClearedSessionsOneEngine(s, topic) == [s EXCEPT ![topic]["codex"] = NoToken]

\* store.clear_sessions(chat_id, thread_id) on the sessions of the topics.
ClearedSessions(s, topic) == [s EXCEPT ![topic] = NoSessions]

\* /new in topic tp of the main chat, which the topics scope allows:
\* _handle_new_command clears the stored sessions of the topic and says so.
NewCommand(tp) ==
    /\ ~shutdown
    /\ topics_command_error(forum.cfg, MainChat) = NoValue
    /\ sessions' = ClearedSessions(sessions, tp)
    /\ forum' = [forum EXCEPT
          !.store = clear_sessions(@, <<MainChat, tp>>),
          !.op = Op("new", MainChat, NoContext,
                    "cleared stored sessions for this topic.")]
    /\ UNCHANGED <<nUpd, runs, running_tasks, schedVars, storeLog, logVars, shutdown>>
    /\ UNCHANGED exceptLoopTopic

\* The store the bridge loads: both topics of the main chat are bound, the
\* first has a title, and each may hold a session of an earlier process.
SessionStores ==
    {[ctx |-> [k \in TopicKeys |->
                 IF k = <<MainChat, 1>>
                 THEN [context |-> RunContext("p1", "feat"),
                       topic_title |-> topic_title(RunContext("p1", "feat")),
                       sessions |-> old[1] # NoToken,
                       created_by_bot |-> FALSE]
                 ELSE IF k = <<MainChat, 2>>
                 THEN [context |-> RunContext("p1", NoValue),
                       topic_title |-> NoTitle,
                       sessions |-> old[2] # NoToken,
                       created_by_bot |-> FALSE]
                 ELSE NoThread],
      old |-> old] : old \in [Topics -> {NoToken, OldToken}]}

(***************************************************************************)
(* Specifications.                                                         *)
(***************************************************************************)
Init ==
    /\ LoopInit /\ EditInit /\ res = NoCall /\ EngInit /\ ProgressInit /\ MediaInit
    /\ RouteIdle /\ TopicInit /\ FrameIdle /\ MenuIdle /\ SymbolIdle

\* The scheduler and the runs it serialises: messages in the topics.
Next ==
    \/ \E tp \in Topics, t \in {NoToken} \cup Tokens, r \in 0..(2 * MaxUpdates) :
          HandleMessage(tp, "codex", t, r)
    \/ \E j \in Jobs : SendWithResume(j)
    \/ \E t \in Tokens : WorkerTake(t)
    \/ \E t \in Tokens : WorkerExit(t)
    \/ \E j \in Jobs, o \in {"ok", "unavailable"} : RunStart(j, o, TRUE)
    \/ \E j \in Jobs : EngineStarted(j)
    \/ \E j \in Jobs : RunEnd(j, FALSE)

Spec == Init /\ [][Next]_vars

\* Every kind of update, cancellation and shutdown.
TaskNext ==
    \/ \E tp \in {1}, e \in Engines, t \in {NoToken} \cup Tokens,
          r \in 0..(2 * MaxUpdates) :
          nUpd < MaxTaskUpdates /\ HandleMessage(tp, e, t, r)
    \/ \E r \in 0..(2 * MaxUpdates) : HandleCancel(r)
    \/ \E r \in 1..(2 * MaxUpdates) : HandleCallbackCancel(r)
    \/ \E tp \in {1}, e \in Engines, m \in {"plugin", "capture"} :
          nUpd < MaxTaskUpdates /\ HandlePlugin(tp, e, m)
    \/ \E j \in Jobs : SendWithResume(j)
    \/ \E t \in Tokens : WorkerTake(t)
    \/ \E t \in Tokens : WorkerExit(t)
    \/ \E j \in Jobs, o \in {"ok", "unavailable"}, sendOk \in BOOLEAN :
          RunStart(j, o, sendOk)
    \/ \E j \in Jobs : EngineStarted(j)
    \/ \E j \in Jobs, c \in BOOLEAN : RunEnd(j, c)
    \/ Shutdown

TaskSpec == Init /\ [][TaskNext]_vars

\* The event loop runs every task that is ready: a run whose cancel_requested
\* is set is woken and reaches its release block.
LiveSpec == TaskSpec /\ \A j \in Jobs : WF_vars(RunEnd(j, TRUE))

\* The runs with every way their start can fail and the exceptions they raise.
FaultNext ==
    \/ \E tp \in {1}, t \in {NoToken} \cup Tokens, r \in 0..(2 * MaxUpdates) :
          HandleMessage(tp, "codex", t, r)
    \/ \E j \in Jobs : SendWithResume(j)
    \/ \E t \in Tokens : WorkerTake(t)
    \/ \E t \in Tokens : WorkerExit(t)
    \/ \E j \in Jobs, o \in StartOutcomes : RunStart(j, o, TRUE)
    \/ \E j \in Jobs : EngineStarted(j)
    \/ \E j \in Jobs : RunEnd(j, FALSE)
    \/ \E j \in Jobs, exc \in ExceptionKinds : RunRaises(j, exc)

FaultSpec == Init /\ [][FaultNext]_vars

\* The messages and the /new commands of two topics, with either engine.
SessionNext ==
    \/ \E tp \in Topics, e \in Engines, t \in {NoToken} \cup Tokens,
          r \in 0..(2 * MaxUpdates) :
          nUpd < MaxTaskUpdates /\ HandleMessage(tp, e, t, r)
    \/ \E tp \in Topics : NewCommand(tp)
    \/ \E j \in Jobs : SendWithResume(j)
    \/ \E t \in Tokens : WorkerTake(t)
    \/ \E t \in Tokens : WorkerExit(t)
    \/ \E j \in Jobs : RunStart(j, "ok", TRUE)
    \/ \E j \in Jobs : EngineStarted(j)
    \/ \E j \in Jobs : RunEnd(j, FALSE)

SessionStart ==
    /\ nUpd = 0
    /\ runs = [j \in Jobs |-> EmptyRun]
    /\ running_tasks = <<>>
    /\ pending = [t \in Tokens |-> <<>>]
    /\ active = {}
    /\ worker = [t \in Tokens |-> None]
    /\ busy_until = [t \in Tokens |-> None]
    /\ storeLog = {}
    /\ enqLog = [t \in Tokens |-> <<>>]
    /\ startLog = [t \in Tokens |-> <<>>]
    /\ shutdown = FALSE
    /\ EditInit /\ res = NoCall /\ EngInit /\ ProgressInit /\ MediaInit
    /\ RouteIdle /\ FrameIdle /\ MenuIdle /\ SymbolIdle
    /\ \E st \in SessionStores :
          /\ sessions = [tp \in Topics |-> [NoSessions EXCEPT !["codex"] = st.old[tp]]]
          /\ forum = [NewForum([scope |-> "main", project_chat_ids |-> {}],
                               [c \in TopicChats |-> FALSE])
                        EXCEPT !.store = st.ctx, !.n = MaxCommands]

SessionSpec == SessionStart /\ [][SessionNext]_vars

\* The edits of two progress messages.
EditNext ==
    \/ \E r \in EditRefs : ProgressUpdate(r)
    \/ \E r \in EditRefs : TurnEnd(r)
    \/ \E r \in EditRefs, ok \in BOOLEAN : EditResolved(r, ok)
    \/ \E r \in EditRefs : EditsDone(r)

EditSpec == Init /\ [][EditNext]_vars

\* One call of resolve_message on each input.
ResolveInit ==
    /\ LoopInit
    /\ EditInit
    /\ res \in {[NoCall EXCEPT !.in = i] : i \in ResolveInputs}
    /\ EngInit
    /\ ProgressInit
    /\ MediaInit
    /\ RouteIdle /\ TopicInit /\ FrameIdle /\ MenuIdle /\ SymbolIdle

ResolveNext == Resolve

ResolveSpec == ResolveInit /\ [][ResolveNext]_vars

\* One call of resolve_engine on each input.
EngineInit ==
    /\ LoopInit
    /\ EditInit
    /\ res = NoCall
    /\ eng \in {[NoEngineCall EXCEPT !.in = i] : i \in EngineInputs}
    /\ ProgressInit
    /\ MediaInit
    /\ RouteIdle /\ TopicInit /\ FrameIdle /\ MenuIdle /\ SymbolIdle

EngineNext == ResolveEngine

EngineSpec == EngineInit /\ [][EngineNext]_vars

\* One renderer fed any events.
ProgressNext == \E ev \in ActionEvents \cup StartedEvents : NoteEvent(ev)

ProgressSpec == Init /\ [][ProgressNext]_vars

\* The documents of one media group, at any times.
MediaNext ==
    \/ Tick
    \/ DocumentArrives
    \/ LoopAwaits
    \/ LoopResumes
    \/ LoopTakesDocument
    \/ FlushSleep
    \/ FlushWake

MediaSpec == Init /\ [][MediaNext]_vars

\* One update of each kind taken by the main loop.
RouteInit ==
    /\ LoopInit /\ EditInit /\ res = NoCall /\ EngInit /\ ProgressInit /\ MediaInit
    /\ \/ \E c \in CallbackInputs : route = [NoRoute EXCEPT !.in = c]
       \/ \E m \in MessageSettings :
             /\ Admissible(m)
             /\ \E i \in {m.command_ids, PluginIds},
                   r \in Resolutions(ambient_context(m)) :
                   route = [NoRoute EXCEPT !.in = Message(m, i, r)]
    /\ TopicInit /\ FrameIdle /\ MenuIdle /\ SymbolIdle

RouteNext == RouteCallback \/ RouteMessage

RouteSpec == RouteInit /\ [][RouteNext]_vars

\* One frame of each kind rendered by the presenter.
FrameInit ==
    /\ LoopInit /\ EditInit /\ res = NoCall /\ EngInit /\ ProgressInit /\ MediaInit
    /\ RouteIdle /\ TopicInit /\ MenuIdle /\ SymbolIdle
    /\ frame \in {[NoFrame EXCEPT !.in = i] : i \in FrameInputs}

FrameNext == RenderProgress \/ RenderFinal

FrameSpec == FrameInit /\ [][FrameNext]_vars

\* One command menu built for each configuration.
MenuInit ==
    /\ LoopInit /\ EditInit /\ res = NoCall /\ EngInit /\ ProgressInit /\ MediaInit
    /\ RouteIdle /\ TopicInit /\ FrameIdle /\ SymbolIdle
    /\ \E i \in MenuInputs : menu = [NoMenu EXCEPT !.in = i]

MenuNext == BuildBotCommands

MenuSpec == MenuInit /\ [][MenuNext]_vars

\* The status of each event.
SymbolInit ==
    /\ LoopInit /\ EditInit /\ res = NoCall /\ EngInit /\ ProgressInit /\ MediaInit
    /\ RouteIdle /\ TopicInit /\ FrameIdle /\ MenuIdle
    /\ \E i \in SymbolInputs : symbol = [NoSymbol EXCEPT !.in = i]

SymbolNext == ChooseStatus

SymbolSpec == SymbolInit /\ [][SymbolNext]_vars

\* The topic commands and the binds of the main loop, in any order.
TopicNext ==
    \/ \E ch \in TopicChats \cup {3}, t \in BOOLEAN,
          a \in {"show", "set", "clear"}, c \in {NoContext} \cup TopicContexts :
          HandleCtx(ch, t, a, c)
    \/ \E ch \in TopicChats \cup {3}, t \in BOOLEAN : HandleNew(ch, t)
    \/ \E ch \in TopicChats \cup {3}, c \in {NoContext} \cup TopicContexts :
          HandleTopic(ch, c)
    \/ \E call \in [chat_id : TopicChats, context : TopicContexts,
                     n : 0..(MaxCommands - 1)], created \in BOOLEAN :
          CreateReturns(call, created)
    \/ \E ch \in TopicChats, c \in TopicContexts : DirectiveBind(ch, c)
    \/ \E ch \in TopicChats, c \in TopicContexts, updated \in BOOLEAN :
          RenameReturns(ch, c, updated)

TopicStart ==
    /\ LoopInit /\ EditInit /\ res = NoCall /\ EngInit /\ ProgressInit /\ MediaInit
    /\ RouteIdle /\ FrameIdle /\ MenuIdle /\ SymbolIdle
    /\ \E cfg \in TopicConfigs, s \in [TopicChats -> BOOLEAN] :
          forum = NewForum(cfg, s)

TopicSpec == TopicStart /\ [][TopicNext]_vars

(***************************************************************************)
(* Properties of the scheduler (Spec).                                     *)
(***************************************************************************)
IsPrefix(a, b) == Len(a) <= Len(b) /\ SubSeq(b, 1, Len(a)) = a
Range(f) == {f[x] : x \in DOMAIN f}

\* C1. Scheduler FIFO: for every session the jobs are started in the order of
\* the enqueue_resume calls: the started jobs followed by the queued ones are
\* the enqueued ones, in order, and each is run with the session's token.
C1_SchedulerFIFO ==
    \A t \in Tokens :
        /\ enqLog[t] = startLog[t] \o pending[t]
        /\ \A k \in DOMAIN enqLog[t] : runs[enqLog[t][k]].token = t

\* Two jobs of one session have been started in turn while a run of another
\* session was live.
C1_Witness ==
    \E t \in Tokens, i \in Jobs :
        /\ Len(startLog[t]) >= 2
        /\ Live(startLog[t][2])
        /\ i \notin Range(startLog[t])
        /\ Live(i)

\* C2. Per-session serialisation: no two live runs belong to one session.
C2_PerSessionSerial ==
    \A i, j \in Jobs :
        (i # j /\ Live(i) /\ Live(j) /\ Session(i) # NoToken) => Session(i) # Session(j)

\* A job is queued under a token that note_thread_known published for a fresh
\* run that is still running, and its worker is waiting for that run.
C2_Witness ==
    \E i, j \in Jobs :
        /\ runs[i].kind = "fresh" /\ runs[i].pc = "running" /\ runs[i].resume = i
        /\ runs[j].pc = "queued" /\ runs[j].token = i
        /\ i \in active /\ busy_until[i] = i

\* C3. Cross-session independence: a session with a queued job and no live
\* run can start that job, whatever the jobs of the other sessions are doing.
C3_CrossSession ==
    \A t \in Tokens :
        (pending[t] # <<>> /\ \A j \in Jobs : Live(j) => Session(j) # t)
            => ENABLED WorkerTake(t)

\* A job of one session is live while a job of another session, enqueued
\* before it, is still queued behind its own session's run.
C3_Witness ==
    \E i, j \in Jobs :
        /\ i < j
        /\ runs[i].kind = "resume" /\ runs[i].pc = "queued"
        /\ runs[j].kind = "resume" /\ Live(j)
        /\ runs[i].token # runs[j].token

Entered(j) == runs[j].ref # None /\ runs[j].ref \in DOMAIN running_tasks

\* C5. Cancellation liveness: once cancel_requested is set on a task that is
\* in RunningTasks, its done event fires and its progress ref leaves
\* RunningTasks.
C5_CancelLiveness ==
    \A j \in Jobs :
        (runs[j].cancel_requested /\ Entered(j))
            ~> (runs[j].done /\ runs[j].ref \notin DOMAIN running_tasks)

\* A run has ended with cancel_requested set, before any shutdown.
C5_Witness ==
    \E j \in Jobs :
        /\ runs[j].cancel_requested /\ runs[j].done /\ runs[j].ref # None
        /\ runs[j].ref \notin DOMAIN running_tasks
        /\ ~shutdown

\* C6. Guaranteed release: no entry of RunningTasks outlives its run. Every
\* entry belongs to a run that is streaming, and a run that has ended after
\* its task was entered has set done and has no entry, shutdown included.
C6_GuaranteedRelease ==
    /\ \A p \in DOMAIN running_tasks : runs[running_tasks[p]].pc = "running"
    /\ \A j \in Jobs :
          (runs[j].pc = "ended" /\ runs[j].ref # None) =>
              (runs[j].done /\ \A p \in DOMAIN running_tasks : running_tasks[p] # j)
    /\ shutdown => running_tasks = <<>>

\* After a shutdown: one run that had been cancelled and one that had not
\* have both released their entries.
C6_Witness ==
    /\ shutdown
    /\ \E i, j \in Jobs :
          /\ runs[i].ref # None /\ runs[i].done /\ runs[i].cancel_requested
          /\ runs[j].ref # None /\ runs[j].done /\ ~runs[j].cancel_requested

\* C7. RunningTasks is keyed by the progress message: every entry is the task
\* of the run that sent that progress message, no run has two entries, and
\* no user's message id is a key.
C7_KeyedByProgress ==
    /\ \A p \in DOMAIN running_tasks :
          /\ p = ProgressMsgId(running_tasks[p])
          /\ runs[running_tasks[p]].ref = p
    /\ \A p, q \in DOMAIN running_tasks : running_tasks[p] = running_tasks[q] => p = q
    /\ \A k \in 1..nUpd : UserMsgId(k) \notin DOMAIN running_tasks

\* Two runs are in RunningTasks at once, each under its own progress message.
C7_Witness ==
    \E p, q \in DOMAIN running_tasks : p # q /\ running_tasks[p] # running_tasks[q]

\* C8. Resume-token durability: a run in a topic that has ended after the
\* engine declared a resume token has had that token stored in the topic
\* store under its topic and the token's engine.
C8_TokenDurability ==
    \A j \in Jobs :
        (runs[j].pc = "ended" /\ runs[j].topic # None /\ runs[j].resume # NoToken)
            => <<runs[j].topic, runs[j].engine, runs[j].resume>> \in storeLog

(***************************************************************************)
(* Properties of the edits (EditSpec).                                     *)
(***************************************************************************)
Last(q) == q[Len(q)]

\* C9. Edit coalescing: a progress message has at most one edit in flight;
\* a snapshot is buffered only while an edit is in flight and the buffer
\* holds the latest state; the edits issued carry ever later states, with
\* nothing in flight the last edit issued carries the latest state, and so
\* it does when the run is done.
C9_EditCoalescing ==
    \A r \in EditRefs :
        LET e == edits[r] IN
        /\ Cardinality(e.inflight) <= 1
        /\ e.buffered # None => (e.inflight # {} /\ e.buffered = e.seq)
        /\ \A i \in 1..Len(e.issued) - 1 : e.issued[i] < e.issued[i + 1]
        /\ (e.inflight = {} /\ e.seq > 0) => Last(e.issued) = e.seq
        /\ e.phase = "done" => Last(e.issued) = e.seq

\* A run is done whose states were coalesced: two states were produced
\* while an edit was in flight and one follow-up edit carried the later.
C9_Witness ==
    \E r \in EditRefs :
        /\ edits[r].phase = "done"
        /\ Len(edits[r].issued) >= 2
        /\ Len(edits[r].issued) + 2 <= edits[r].seq

(***************************************************************************)
(* Properties of resolve_message (ResolveSpec).                            *)
(***************************************************************************)
\* The context of the earliest non-empty source in the order directives,
\* reply context, topic binding, chat default, none.
PrecedenceContext(in) ==
    IF in.project # NoValue \/ in.branch # NoValue
    THEN RunContext(in.project, in.branch)
    ELSE IF in.reply_ctx # NoContext THEN in.reply_ctx
    ELSE IF in.ambient_context # NoContext THEN in.ambient_context
    ELSE IF in.chat_project # NoValue THEN RunContext(in.chat_project, NoValue)
    ELSE IF in.default_project # NoValue THEN RunContext(in.default_project, NoValue)
    ELSE NoContext

\* C10. Context precedence: the context resolve_message returns is that of
\* the earliest non-empty source; where the directives name a project, the
\* context names that project, and a branch directive is the context's branch.
C10_ContextPrecedence ==
    res.called =>
        IF res.in.project # NoValue
        THEN res.out.context.project = res.in.project
             /\ res.out.context.branch = res.in.branch
        ELSE IF res.in.branch # NoValue
        THEN res.out.context.branch = res.in.branch
        ELSE res.out.context = PrecedenceContext(res.in)

\* The project the returned context names, if the configuration knows it.
ResolvedDefaultEngine(out) ==
    IF out.context.project \in Projects
    THEN ProjectDefaultEngine(out.context.project)
    ELSE NoValue

\* C11. Engine override: with no resume token resolved, an engine directive
\* is the engine_override returned; without one the resolved project's
\* default_engine is; and engine_override is absent only when neither exists.
C11_EngineOverride ==
    (res.called /\ res.out.resume_token = NoToken) =>
        res.out.engine_override =
            IF res.in.engine # NoValue THEN res.in.engine
            ELSE ResolvedDefaultEngine(res.out)

(***************************************************************************)
(* Properties of resolve_engine (EngineSpec).                              *)
(***************************************************************************)
\* C12. resolve_engine returns the override when one is given, else the
\* default_engine of the context's project when the project is configured
\* and has one, else the router's default engine.
C12_ResolveEngine ==
    eng.called =>
        /\ eng.in.engine_override # NoValue => eng.out = eng.in.engine_override
        /\ (eng.in.engine_override = NoValue
            /\ eng.in.context.project \in Projects
            /\ ProjectDefaultEngine(eng.in.context.project) # NoValue)
               => eng.out = ProjectDefaultEngine(eng.in.context.project)
        /\ (eng.in.engine_override = NoValue
            /\ (eng.in.context.project \notin Projects
                \/ ProjectDefaultEngine(eng.in.context.project) = NoValue))
               => eng.out = eng.in.default_engine

\* The override was given with a project whose default engine differs.
C12_Witness ==
    /\ eng.called
    /\ eng.in.engine_override = "codex"
    /\ eng.in.context.project = "p1"
    /\ eng.out = "codex"

(***************************************************************************)
(* Properties of resolve_message with a resume token, and of its context.  *)
(***************************************************************************)
\* C13. Resume wins: when a resume line is recognised, resolve_message
\* returns that token and no engine_override, whatever engine directive the
\* text carries and whatever default_engine the project has.
C13_ResumeWins ==
    (res.called /\ res.in.resume_token # NoToken) =>
        /\ res.out.resume_token = res.in.resume_token
        /\ res.out.engine_override = NoValue

\* A resume token with an engine directive, in a chat whose project has a
\* default engine.
C13_Witness ==
    /\ res.called
    /\ res.in.resume_token # NoToken
    /\ res.in.engine = "codex"
    /\ res.out.context.project = "p1"
    /\ res.out.engine_override = NoValue

\* C14. Resume + context: with a resume token and no project directive, the
\* context is the reply context line if there is one, else the chat's
\* project with no branch, else none; the branch returned is one the reply
\* context line or a directive gave, or absent.
C14_ResumeContext ==
    (res.called /\ res.out.resume_token # NoToken /\ res.in.project = NoValue) =>
        /\ res.out.context =
              IF res.in.reply_ctx # NoContext THEN res.in.reply_ctx
              ELSE IF res.in.chat_project # NoValue
                   THEN RunContext(res.in.chat_project, NoValue)
                   ELSE NoContext
        /\ res.out.context.branch \in {NoValue, res.in.reply_ctx.branch, res.in.branch}

\* A resume token with no reply context line: the chat's project, no branch,
\* though a global default project is configured too.
C14_Witness ==
    /\ res.called
    /\ res.out.resume_token # NoToken
    /\ res.in.project = NoValue
    /\ res.in.reply_ctx = NoContext
    /\ res.in.chat_project = "p1"
    /\ res.in.default_project = "p2"
    /\ res.out.context = RunContext("p1", NoValue)

\* C15. Chat-default project: with no project or branch directive, no reply
\* context line and no resume token, in a chat mapped to a project, the
\* context is that project with no branch, whatever the global default is.
C15_ChatDefault ==
    (/\ res.called
     /\ res.in.project = NoValue /\ res.in.branch = NoValue
     /\ res.in.reply_ctx = NoContext
     /\ res.in.resume_token = NoToken
     /\ res.in.chat_project # NoValue)
        => res.out.context = RunContext(res.in.chat_project, NoValue)

\* The chat's project and the global default differ: the chat's is returned.
C15_Witness ==
    /\ res.called
    /\ res.in.project = NoValue /\ res.in.branch = NoValue
    /\ res.in.reply_ctx = NoContext
    /\ res.in.resume_token = NoToken
    /\ res.in.chat_project = "p1"
    /\ res.in.default_project = "p2"
    /\ res.out.context = RunContext("p1", NoValue)

C17_ProgressDedup ==
    \A i, k \in 1..Len(progress.recent_actions) :
        progress.recent_actions[i].id = progress.recent_actions[k].id => i = k

\* C18. Step count: the step count is the number of distinct action ids
\* seen, events of kind turn or with an empty id left out.
C18_StepCount == progress.action_count = Cardinality(progress.seen)

C20_MediaQuiescence ==
    (media.burst /\ media.arrived >= 1) =>
        IF media.seen = media.arrived /\ ~media.present
        THEN media.handled = <<[i \in 1..media.arrived |-> i]>>
        ELSE media.handled = <<>>

(***************************************************************************)
(* Properties of the routing of an update (RouteSpec).                     *)
(***************************************************************************)
\* The message went as far as resolve_message, which resolved it.
Resolved ==
    /\ route.done
    /\ route.in.kind = "message"
    /\ route.out.handler \in {"unbound_topic", "send_with_resume", "run_job",
                              "enqueue_resume"}

C22_ReservedNotShadowed ==
    (/\ route.done
     /\ route.in.kind = "message"
     /\ parse_slash_command(route.in.text)
           \in {"codex", "p1", "cancel", "ctx", "new", "topic", "file"})
    => /\ ~route.out.dispatched
       /\ route.out.handler \in {"media_group", "cancel", "file", "ctx", "new",
                                 "topic", "directive_error", "unbound_topic",
                                 "send_with_resume", "run_job", "enqueue_resume"}

\* /P1, the alias of a project, was sent while the cache held a plugin p1,
\* and it started a run in that project instead of the plugin.
C22_Witness ==
    /\ route.done
    /\ route.in.kind = "message"
    /\ route.in.text.name = "P1"
    /\ "p1" \in route.in.command_ids
    /\ ~route.out.dispatched
    /\ route.out.handler = "run_job"

\* C23. Callback routing: a callback query with data takopi:cancel sets
\* cancel_requested on the task keyed by the chat and the message of the
\* button and on no other, and changes nothing when no task is keyed there;
\* a query with other data changes nothing; every query is answered, and
\* none starts or enqueues a run.
C23_CallbackRouting ==
    (route.done /\ route.in.kind = "callback")
    => /\ route.out.answered
       /\ ~route.out.run_job /\ ~route.out.enqueue /\ ~route.out.dispatched
       /\ \A r \in TaskRefs :
            route.out.tasks[r] =
                IF /\ route.in.data = "takopi:cancel"
                   /\ r = <<ChatId, route.in.message_id>>
                   /\ route.in.tasks[r] = "running"
                THEN "cancel_requested"
                ELSE route.in.tasks[r]

\* The button under the progress message of a running task was pressed while
\* a task of another chat had a progress message with the same id: the first
\* is asked to cancel, the second is not.
C23_Witness ==
    /\ route.done
    /\ route.in.kind = "callback"
    /\ route.in.data = "takopi:cancel"
    /\ route.in.message_id = 2
    /\ route.in.tasks = [r \in TaskRefs |-> "running"]
    /\ route.out.tasks[<<1, 2>>] = "cancel_requested"
    /\ route.out.tasks[<<2, 2>>] = "running"
    /\ route.out.answer = "cancelling..."

\* C24. /cancel sets cancel_requested only on the task keyed by the progress
\* message it replies to; a /cancel that is no reply, or that replies to a
\* message no running task is keyed by, changes no task and is answered with
\* an explanation; a /cancel message starts no run.
C24_CancelCommand ==
    (route.done /\ route.in.kind = "message" /\ is_cancel_command(route.in.text))
    => /\ ~route.out.run_job /\ ~route.out.enqueue /\ ~route.out.dispatched
       /\ LET handled == ~(route.in.files_enabled /\ route.in.document = "group")
              target == <<ChatId, route.in.reply.id>>
              found == /\ route.in.reply.id # None
                       /\ target \in TaskRefs
                       /\ route.in.tasks[target] = "running"
          IN  /\ \A r \in TaskRefs :
                    route.out.tasks[r] =
                        IF handled /\ found /\ r = target
                        THEN "cancel_requested"
                        ELSE route.in.tasks[r]
              /\ (handled /\ ~found) =>
                    route.out.reply \in
                        {"nothing is currently running for that message.",
                         "reply to the progress message to cancel."}

\* A /cancel replied to a message whose id is that of the progress message
\* of a task running in another chat: no task was touched and the sender
\* was told that nothing runs for that message.
C24_Witness ==
    /\ route.done
    /\ route.in.kind = "message"
    /\ is_cancel_command(route.in.text)
    /\ route.in.reply.id = 2
    /\ route.in.tasks[<<1, 2>>] = "absent"
    /\ route.in.tasks[<<2, 2>>] = "running"
    /\ route.out.handler = "cancel"
    /\ route.out.tasks = route.in.tasks
    /\ route.out.reply = "nothing is currently running for that message."

(***************************************************************************)
(* Properties of the presenter (FrameSpec).                                *)
(***************************************************************************)
\* The label reads "cancelled", in any case, between optional backticks and
\* optional outer white space.
SaysCancelled(label) ==
    \E pre, post \in 0..MaxLabel, ticks \in BOOLEAN,
       word \in {"cancelled", "Cancelled"} :
        label = [i \in 1..pre |-> " "]
                    \o (IF ticks THEN <<Backtick, word, Backtick>> ELSE <<word>>)
                    \o [i \in 1..post |-> " "]

\* C27. Cancel button removal: every final frame, and every progress frame
\* rendered with the label cancelled, carries an empty inline keyboard;
\* every other progress frame carries the cancel button, whose callback
\* data is takopi:cancel.
C27_CancelButtonRemoval ==
    frame.done =>
        IF frame.in.kind = "final" \/ SaysCancelled(frame.in.label)
        THEN frame.reply_markup.inline_keyboard = <<>>
        ELSE /\ Len(frame.reply_markup.inline_keyboard) = 1
             /\ Len(frame.reply_markup.inline_keyboard[1]) = 1
             /\ frame.reply_markup.inline_keyboard[1][1].callback_data
                    = "takopi:cancel"

\* A progress frame was rendered with the label cancelled in backticks,
\* and it has no button.
C27_Witness ==
    /\ frame.done
    /\ frame.in.kind = "progress"
    /\ frame.in.label = <<Backtick, "cancelled", Backtick>>
    /\ frame.reply_markup.inline_keyboard = <<>>

(***************************************************************************)
(* Properties of the command menu (MenuSpec).                              *)
(***************************************************************************)
\* C28. Command menu: whatever the engines, the project aliases and the
\* plugins, the menu has no more entries than the limit, no command name is
\* in it twice, and the cancel command is in it when the cut at the limit
\* would have dropped it.
C28_CommandMenu ==
    menu.done =>
        /\ Len(menu.commands) <= MAX_BOT_COMMANDS
        /\ \A i, j \in DOMAIN menu.commands :
              menu.commands[i].command = menu.commands[j].command => i = j
        /\ (/\ Len(menu.full) > MAX_BOT_COMMANDS
            /\ \A i \in 1..MAX_BOT_COMMANDS : menu.full[i].command # "cancel")
           => \E i \in DOMAIN menu.commands : menu.commands[i].command = "cancel"

\* More commands than the limit were collected, with cancel after the limit:
\* the menu is full and its last entry is the cancel command.
C28_Witness ==
    /\ menu.done
    /\ Len(menu.full) > MAX_BOT_COMMANDS + 1
    /\ \A i \in 1..MAX_BOT_COMMANDS : menu.full[i].command # "cancel"
    /\ Len(menu.commands) = MAX_BOT_COMMANDS
    /\ menu.commands[MAX_BOT_COMMANDS].command = "cancel"
    /\ menu.in.engines # <<>> /\ menu.in.aliases # <<>> /\ menu.in.plugins # <<>>

(***************************************************************************)
(* Properties of the topic commands (TopicSpec).                           *)
(***************************************************************************)
\* The step is the handling of the topic command kind.
TopicCommandStep(kinds) ==
    /\ forum'.n = forum.n + 1
    /\ forum'.op.kind \in kinds

\* C25. Topic commands reject chats that are not allowed: /ctx, /new and
\* /topic from a chat whose id is not in the resolved topics scope are
\* answered with an error, change no entry of the topic store, and neither
\* create nor rename a forum topic.
C25_TopicCommandsRejected ==
    [][(/\ TopicCommandStep({"ctx show", "ctx set", "ctx clear", "new", "topic"})
        /\ forum'.op.chat_id \notin resolve_topics_scope(forum.cfg).chat_ids)
       => /\ forum'.op.reply \in
                {"topics commands are only available in the main chat (auto scope).",
                 "topics commands are only available in the main chat.",
                 "topics commands are only available in project chats (auto scope).",
                 "topics commands are only available in project chats.",
                 "topics commands are only available in the main or project chats."}
          /\ forum'.store = forum.store
          /\ forum'.create_calls = forum.create_calls
          /\ forum'.edit_calls = forum.edit_calls
          /\ forum'.inflight = forum.inflight]_vars

\* With the scope set to the project chats, a topic of the project chat was
\* bound, and then /ctx set came from the main chat and was refused.
C25_Witness ==
    /\ forum.cfg = [scope |-> "projects", project_chat_ids |-> {2}]
    /\ forum.store[<<2, 1>>].context # NoContext
    /\ forum.op.kind = "ctx set"
    /\ forum.op.chat_id = MainChat
    /\ forum.op.reply = "topics commands are only available in project chats."
    /\ forum.store[<<1, 1>>] = NoThread

\* C26. Topic rename idempotence: once a thread was bound to a context and
\* renamed with success, a further bind of the thread to that context, by
\* /ctx set or by the directives of a message, calls edit_forum_topic no
\* more; settled is the context of the last successful rename as long as no
\* other bind and no /ctx clear has come since.
C26_RenameIdempotence ==
    [][\A ch \in TopicChats :
          (/\ TopicCommandStep({"ctx set", "directives"})
           /\ forum'.op.chat_id = ch
           /\ forum'.op.context # NoContext
           /\ forum'.op.context = forum.settled[ch])
          => forum'.edit_calls = forum.edit_calls]_vars

\* A topic was bound and renamed, and then bound twice more to the same
\* context, last by directives: edit_forum_topic was called once in all.
C26_Witness ==
    /\ forum.n = 3
    /\ forum.edit_calls = 1
    /\ forum.inflight = {}
    /\ forum.op.kind = "directives"
    /\ forum.op.context = forum.settled[forum.op.chat_id]
    /\ forum.store[<<forum.op.chat_id, 1>>].topic_title = topic_title(forum.op.context)

(***************************************************************************)
(* Properties of the progress renderer, continued (ProgressSpec).          *)
(***************************************************************************)
\* The step feeds the renderer an event that it notes in the ring.
Noted ==
    /\ progress'.fed = progress.fed + 1
    /\ progress'.op \in {"replaced", "appended"}

\* C29. In-place update: an event for an action id that has an entry in the
\* ring that is not completed overwrites the line of that entry where it
\* is: the length of the ring, the place of the entry and every other entry
\* stay, and the entry is completed after it exactly when the phase of the
\* event is completed.
C29_InPlaceUpdate ==
    [][\A i \in 1..Len(progress.recent_actions) :
          (/\ Noted
           /\ progress.recent_actions[i].id = progress'.noted.id
           /\ ~progress.recent_actions[i].completed)
          => /\ Len(progress'.recent_actions) = Len(progress.recent_actions)
             /\ \A k \in 1..Len(progress.recent_actions) :
                   k # i => progress'.recent_actions[k] = progress.recent_actions[k]
             /\ progress'.recent_actions[i].id = progress'.noted.id
             /\ progress'.recent_actions[i].completed
                   = (progress'.noted.phase = "completed")
             /\ progress'.recent_actions[i].line \in
                   {Line(st, progress'.noted.id) :
                      st \in IF progress'.noted.phase = "completed"
                             THEN {STATUS_DONE, STATUS_FAIL}
                             ELSE {STATUS_UPDATE, STATUS_RUNNING}}]_vars

\* The first of two running actions has failed: its line was replaced where
\* it stood, before the line of the second, which still runs.
C29_Witness ==
    /\ progress.op = "replaced"
    /\ progress.recent_actions =
          << [id |-> "a", completed |-> TRUE, line |-> Line(STATUS_FAIL, "a")],
             [id |-> "b", completed |-> FALSE, line |-> Line(STATUS_RUNNING, "b")] >>

(***************************************************************************)
(* Properties of the status symbols (SymbolSpec).                          *)
(***************************************************************************)
\* C30. Completion status: the symbol of a completed action is that of the
\* ok flag when one is given, success for ok and fail for not ok, whatever
\* the exit code; without an ok flag it is fail when the exit code is an
\* integer other than zero, and success otherwise. An action that is not
\* completed shows neither success nor fail.
C30_CompletionStatus ==
    symbol.done =>
        IF symbol.in.phase = "completed"
        THEN symbol.status =
                IF symbol.in.ok = "True" THEN STATUS_DONE
                ELSE IF symbol.in.ok = "False" THEN STATUS_FAIL
                ELSE IF symbol.in.exit_code \in [is_int : {TRUE}, value : {-1, 1, 2}]
                THEN STATUS_FAIL
                ELSE STATUS_DONE
        ELSE symbol.status \notin {STATUS_DONE, STATUS_FAIL}

\* An action completed with ok set and an exit code of 1, and shows success.
C30_Witness ==
    /\ symbol.done
    /\ symbol.in.phase = "completed"
    /\ symbol.in.ok = "True"
    /\ symbol.in.exit_code = [is_int |-> TRUE, value |-> 1]
    /\ symbol.status = STATUS_DONE

(***************************************************************************)
(* Properties of a failing run (FaultSpec).                                *)
(***************************************************************************)
\* C31. Failure isolation: an exception raised in a run while it resolves its
\* runner or while the engine runs is caught and logged in that run: the run
\* ends, the root task group is not cancelled, so that the loop goes on
\* taking updates, and every other run, its RunningTask and the scheduler are
\* as they were.
C31_FailureIsolation ==
    [][\A j \in Jobs, exc \in ExceptionKinds :
          RunRaises(j, exc) =>
              /\ runs'[j].raised /\ runs'[j].pc = "ended"
              /\ ~shutdown'
              /\ \A i \in Jobs \ {j} :
                    /\ runs'[i] = runs[i]
                    /\ Entered(i) => /\ runs[i].ref \in DOMAIN running_tasks'
                                     /\ running_tasks'[runs[i].ref] = i
              /\ UNCHANGED <<nUpd, schedVars, storeVars>>]_vars

\* A run has raised and ended while another run, entered in RunningTasks, is
\* still streaming and the loop can still take an update.
C31_Witness ==
    \E j, i \in Jobs :
        /\ runs[j].raised /\ runs[j].pc = "ended"
        /\ i # j /\ runs[i].pc = "running" /\ Entered(i)
        /\ ~shutdown /\ nUpd < MaxUpdates

\* C32. Unavailable runner: a run whose runner is unavailable, or whose
\* working directory cannot be resolved, starts no engine and registers no
\* RunningTask; for an unavailable runner the user is sent exactly one frame,
\* a final frame with status error that carries the request's resume token.
C32_UnavailableRunner ==
    [][\A j \in Jobs, o \in {"unavailable", "ConfigError"} :
          RunStart(j, o, TRUE) =>
              /\ runs'[j].pc = "ended" /\ runs'[j].ref = None
              /\ runs'[j].resume = NoToken /\ ~runs'[j].done
              /\ running_tasks' = running_tasks
              /\ \A p \in DOMAIN running_tasks' : running_tasks'[p] # j
              /\ o = "unavailable" =>
                    runs'[j].sent = <<[kind |-> "final", status |-> "error",
                                       resume |-> runs[j].token]>>]_vars

\* A request with a resume token found its runner unavailable and was answered
\* with the frame, and another found no working directory.
C32_Witness ==
    \E j, i \in Jobs :
        /\ runs[j].pc = "ended" /\ runs[j].token # NoToken
        /\ Len(runs[j].sent) = 1 /\ runs[j].sent[1].kind = "final"
        /\ runs[j].sent[1].resume = runs[j].token
        /\ runs[i].pc = "ended" /\ Len(runs[i].sent) = 1
        /\ runs[i].sent[1].kind = "plain"

(***************************************************************************)
(* Properties of the flush task (MediaSpec).                               *)
(***************************************************************************)
\* The flush task wakes up.
Woke == media.pc = "sleeping" /\ media'.now = media.now /\ media'.wakeAt # media.wakeAt

\* The handler is called.
Flushed == media'.handled # media.handled

RECURSIVE Flatten(_)
Flatten(calls) == IF calls = <<>> THEN <<>> ELSE Head(calls) \o Flatten(Tail(calls))

\* C34. Exactly-once delivery: the documents the main loop has appended are,
\* each exactly once and in order, those of the handler's calls followed by
\* those still in the state, so that once the state is flushed every one of
\* them has been passed to exactly one call, those appended after an earlier
\* flush included; while the state exists its token is the length of its
\* list and exactly one flush task waits on it; without a state none does.
C34_ExactlyOnce ==
    /\ Flatten(media.handled) \o media.state.messages = [i \in 1..media.seen |-> i]
    /\ \A k \in DOMAIN media.handled : media.handled[k] # <<>>
    /\ IF media.present
       THEN /\ media.state.token = Len(media.state.messages)
            /\ media.state.token >= 1
            /\ media.flushers = 1
            /\ media.pc \in {"start", "sleeping"}
       ELSE /\ media.state = NoGroup
            /\ media.flushers = 0
            /\ media.pc = "none"

\* A group was flushed, a later document of the same key made a new state,
\* and that one was flushed too: two calls, three documents, each once.
C34_Witness ==
    /\ Len(media.handled) = 2
    /\ Flatten(media.handled) = <<1, 2, 3>>
    /\ ~media.present
    /\ media.seen = media.arrived

(***************************************************************************)
(* Properties of the stored sessions (SessionSpec).                        *)
(***************************************************************************)
\* The reply, if any, is not to the progress message of a running task.
NoRunningReply(r) == IF r = None THEN TRUE ELSE r \notin DOMAIN running_tasks

\* The message is launched as a fresh run, outside the scheduler.
LaunchedFresh(j) ==
    /\ runs'[j].kind = "fresh" /\ runs'[j].pc = "spawned"
    /\ runs'[j].token = NoToken
    /\ pending' = pending

\* The message is enqueued on the scheduler under token t.
EnqueuedUnder(j, t) ==
    /\ runs'[j].kind = "resume" /\ runs'[j].pc = "queued"
    /\ runs'[j].token = t
    /\ pending' = [pending EXCEPT ![t] = Append(@, j)]

\* C35. Stored-session resume: a message in a topic that resolved without a
\* resume token and does not reply to a running task's progress message is
\* enqueued under the token the store holds for its topic and its engine,
\* if it holds one, and is launched fresh if it holds none for them,
\* whatever it holds for the other engine and for the other topic.
C35_StoredSessionResume ==
    [][\A tp \in Topics, e \in Engines, r \in 0..(2 * MaxUpdates) :
          (HandleMessage(tp, e, NoToken, r) /\ NoRunningReply(r)) =>
              IF sessions[tp][e] # NoToken
              THEN EnqueuedUnder(nUpd + 1, sessions[tp][e])
              ELSE LaunchedFresh(nUpd + 1)]_vars

\* A message for one engine was launched fresh in a topic that held a token
\* of the other engine, after a message in the other topic was enqueued
\* under the token stored there.
C35_Witness ==
    \E i, j \in Jobs :
        /\ runs[i].kind = "resume" /\ runs[i].token = OldToken /\ runs[i].topic = 1
        /\ sessions[1]["codex"] = OldToken
        /\ runs[j].kind = "fresh" /\ runs[j].topic = 2 /\ runs[j].engine = "pi"
        /\ runs[j].pc = "spawned"
        /\ sessions[2]["codex"] = OldToken /\ sessions[2]["pi"] = NoToken

\* A run in topic tp publishes its resume token in this step.
Publishes(tp) ==
    \E j \in Jobs :
        /\ runs[j].topic = tp
        /\ runs[j].resume = NoToken
        /\ runs'[j].resume # NoToken

\* C36. /new resets the sessions only: /new in a topic leaves the topic
\* without a stored session and leaves its context binding, its title, every
\* other topic's entry and sessions as they were; a topic without a stored
\* session stays so until a run in that topic publishes a resume token; and
\* as long as it has none, a message in it without a resume token that does
\* not reply to a running task is launched as a fresh run.
C36_NewResetsSessions ==
    [][/\ \A tp \in Topics :
             NewCommand(tp) =>
                 /\ sessions'[tp] = NoSessions
                 /\ \A u \in Topics \ {tp} : sessions'[u] = sessions[u]
                 /\ \A k \in TopicKeys :
                       /\ forum'.store[k].context = forum.store[k].context
                       /\ forum'.store[k].topic_title = forum.store[k].topic_title
                       /\ k # <<MainChat, tp>> => forum'.store[k] = forum.store[k]
       /\ \A tp \in Topics :
             (sessions[tp] = NoSessions /\ sessions'[tp] # NoSessions) =>
                 Publishes(tp)
       /\ \A tp \in Topics, e \in Engines, r \in 0..(2 * MaxUpdates) :
             (/\ sessions[tp] = NoSessions
              /\ HandleMessage(tp, e, NoToken, r)
              /\ NoRunningReply(r)) => LaunchedFresh(nUpd + 1)]_vars

\* A run published its token in topic 1, /new cleared it, and the next
\* message in the topic was launched fresh while the other topic still holds
\* its session and topic 1 its binding and title.
C36_Witness ==
    /\ forum.op.kind = "new"
    /\ <<1, "codex", 1>> \in storeLog
    /\ sessions[1] = NoSessions
    /\ runs[2].kind = "fresh" /\ runs[2].topic = 1 /\ runs[2].engine = "codex"
    /\ runs[2].pc = "spawned"
    /\ sessions[2]["codex"] = OldToken
    /\ forum.store[<<MainChat, 1>>].context = RunContext("p1", "feat")
    /\ forum.store[<<MainChat, 1>>].topic_title # NoTitle

(***************************************************************************)
(* Properties of a reply to a running task (Spec).                         *)
(***************************************************************************)
\* The job was a reply to the progress message of a task that was running.
RepliedToRunning(j) == runs[j].waitOn # None

\* The number of enqueue_resume calls made for job j.
Enqueues(j) ==
    Cardinality({<<t, k>> \in Tokens \X (1..MaxUpdates) :
                    k \in DOMAIN enqLog[t] /\ enqLog[t][k] = j})

\* C37. Reply to a running task: a reply without a resume line to the
\* progress message of a running task is made to wait and is never a fresh
\* run; while it waits nothing is enqueued for it; the wait can end as soon
\* as the task's token is ready or the task is done; it ends with the
\* message enqueued, once, under the task's token and with the task's
\* context when there is a token, and with nothing enqueued and the user
\* told that the token is not ready when the task is done without one.
C37_ReplyToRunning ==
    /\ [](\A j \in Jobs :
            /\ RepliedToRunning(j) =>
                  /\ runs[j].kind \in {"wait", "resume"}
                  /\ Enqueues(j) = IF runs[j].kind = "resume" THEN 1 ELSE 0
            /\ runs[j].pc = "waiting" =>
                  /\ RepliedToRunning(j) /\ runs[j].kind = "wait"
                  /\ (runs[runs[j].waitOn].resume # NoToken \/ runs[runs[j].waitOn].done)
                        => ENABLED SendWithResume(j))
    /\ [][/\ \A tp \in Topics, r \in 1..(2 * MaxUpdates) :
                 (HandleMessage(tp, "codex", NoToken, r) /\ r \in DOMAIN running_tasks)
                     => /\ runs'[nUpd + 1].pc = "waiting"
                        /\ runs'[nUpd + 1].waitOn = running_tasks[r]
                        /\ UNCHANGED <<pending, enqLog>>
           /\ \A j \in Jobs :
                 SendWithResume(j) =>
                     LET task == runs[runs[j].waitOn] IN
                     IF task.resume # NoToken
                     THEN /\ EnqueuedUnder(j, task.resume)
                          /\ enqLog' = [enqLog EXCEPT ![task.resume] = Append(@, j)]
                          /\ runs'[j].context = task.context
                     ELSE /\ task.done
                          /\ runs'[j].pc = "ended"
                          /\ runs'[j].sent = <<not_ready>>
                          /\ UNCHANGED <<pending, enqLog>>]_vars

\* One reply was enqueued under the token of the task it replied to, with
\* that task's context, and another was told that the token is not ready
\* after its task ended without one.
C37_Witness ==
    \E i, j \in Jobs :
        /\ runs[i].waitOn = 1 /\ runs[i].kind = "resume" /\ runs[i].token = 1
        /\ runs[i].context = 1 /\ Enqueues(i) = 1
        /\ runs[j].waitOn # None /\ runs[j].pc = "ended" /\ runs[j].sent = <<not_ready>>
        /\ Enqueues(j) = 0

(***************************************************************************)
(* Properties of /topic (TopicSpec).                                       *)
(***************************************************************************)
\* The forum topics made in a chat for a context.
CreatedFor(chat_id, context) ==
    {t \in forum.created : t.chat_id = chat_id /\ t.context = context}

\* C38. /topic makes at most one forum topic per chat and context, however
\* the /topic commands interleave: a /topic for a context that a thread of
\* the chat is bound to calls create_forum_topic no more and changes no
\* entry of the store; a create that succeeds stores context, title and
\* created_by_bot by the time it is confirmed; one that fails stores nothing.
C38_OneTopicPerContext ==
    /\ [](\A ch \in TopicChats, c \in TopicContexts :
             Cardinality(CreatedFor(ch, c)) <= 1)
    /\ [][/\ (/\ TopicCommandStep({"topic"})
               /\ find_thread_for_context(forum.store, forum'.op.chat_id,
                                           forum'.op.context))
              => /\ forum'.create_calls = forum.create_calls
                 /\ forum'.store = forum.store
           /\ \A call \in forum.creating :
                 /\ CreateReturns(call, FALSE) => forum'.store = forum.store
                 /\ CreateReturns(call, TRUE) =>
                       \E k \in TopicKeys :
                           /\ k[1] = call.chat_id
                           /\ forum.store[k] = NoThread
                           /\ forum'.store[k] =
                                 [NoThread EXCEPT
                                    !.context = call.context,
                                    !.topic_title = topic_title(call.context),
                                    !.created_by_bot = TRUE]]_vars

(***************************************************************************)
(* Properties of the binding of a topic by a message (RouteSpec).          *)
(***************************************************************************)
\* The update is a message that is no command, or a file transfer.
PlainOrFile ==
    /\ route.done
    /\ route.in.kind = "message"
    /\ route.out.handler \in {"file", "file_put_default", "directive_error",
                               "unbound_topic", "send_with_resume", "run_job",
                               "enqueue_resume"}

ReachedCommands ==
    /\ route.done
    /\ route.in.kind = "message"
    /\ route.out.handler \in {"dispatch_command", "directive_error", "unbound_topic",
                               "send_with_resume", "run_job", "enqueue_resume"}

\* The slash command of the message is none of the reserved ones.
NonReserved ==
    /\ parse_slash_command(route.in.text) # NoValue
    /\ parse_slash_command(route.in.text)
          \notin reserved_commands(RouteEngineIds, RouteAliases)

\* C40. Lazy refresh of the command cache: the loop refreshes the cache only
\* for a slash command that is not reserved and not in the cache; a command
\* that is in the cache, as it was or as the refresh left it, is dispatched
\* to its plugin and is not resolved, run or enqueued; a command that the
\* refresh did not bring goes on to the resolver and the engine-run path.
C40_LazyCacheRefresh ==
    (route.done /\ route.in.kind = "message") =>
        LET cmd == parse_slash_command(route.in.text) IN
        /\ route.out.refreshed =>
              (ReachedCommands /\ NonReserved /\ cmd \notin route.in.command_ids)
        /\ (ReachedCommands /\ NonReserved) =>
              /\ route.out.refreshed <=> cmd \notin route.in.command_ids
              /\ IF \/ cmd \in route.in.command_ids
                    \/ cmd \in route.in.installed
                 THEN /\ route.out.handler = "dispatch_command"
                      /\ route.out.dispatched
                      /\ ~route.out.run_job /\ ~route.out.enqueue
                      /\ route.out.reply = NoValue
                 ELSE /\ route.out.handler # "dispatch_command"
                      /\ ~route.out.dispatched

\* A command that was not in the cache was found by the refresh and
\* dispatched to its plugin.
C40_Witness ==
    /\ ReachedCommands /\ NonReserved
    /\ route.in.command_ids = {}
    /\ route.out.refreshed
    /\ route.out.handler = "dispatch_command"
    /\ route.out.dispatched

====
